---------------------------- MODULE Spec2Model ----------------------------
(***************************************************************************)
(* A model of three components of the query engine:                        *)
(*   - BlockingPlanRootSink (be/src/exec/blocking-plan-root-sink.cc): the  *)
(*     producer/consumer rendezvous that hands result rows to the client;  *)
(*   - ClusterMembershipMgr (be/src/scheduling/cluster-membership-mgr.cc): *)
(*     the copy-on-write membership snapshots;                             *)
(*   - HashTable (be/src/exec/hash-table.inline.h): open addressing with   *)
(*     duplicate chains.                                                   *)
(* The three components share no state.  `focus' selects the component a   *)
(* behaviour exercises; the other two stay in their initial state.         *)
(***************************************************************************)
EXTENDS Integers, Sequences, FiniteSets, TLC

VARIABLES
  focus,               \* "sink", "cmm" or "ht": the component exercised
  \* ---- BlockingPlanRootSink ----
  sender_state,        \* sender_state_
  results,             \* results_: "null", "cur" (the result set of the GetNext
                       \* call in progress) or "stale" (the result set of a
                       \* GetNext call that has returned)
  num_rows_requested,  \* num_rows_requested_
  is_cancelled,        \* RuntimeState::is_cancelled()
  lock,                \* holder of lock_: "free", "P" (producer), "C" (consumer)
  pcP,                 \* position of the producer (fragment instance) thread
  pcC,                 \* position of the consumer (fetch) thread
  pcX,                 \* position of the cancelling thread
  batch_rows,          \* batch->num_rows() of the batch being sent
  batch_first,         \* number of rows in the batches sent before this one
  current_batch_row,   \* Send's local current_batch_row
  batches_sent,        \* number of Send calls made
  rows_total,          \* number of rows in all batches passed to Send
  cur_results,         \* rows in the result set of the latest GetNext call
  delivered,           \* rows added to result sets, in the order added
  send_status,         \* status returned by the latest Send
  get_status,          \* status returned by the latest GetNext
  get_eos,             \* *eos reported by the latest GetNext
  cancel_found,        \* what Cancel found when it was called: "send_blocked",
                       \* "get_blocked", "running"; "none" before the call
  \* ---- ClusterMembershipMgr ----
  current_membership,  \* current_membership_: [obj, snap], obj names the
                       \* Snapshot object the shared pointer refers to
  recovering_membership, \* recovering_membership_: Nil or [obj, snap]
  num_calls,           \* UpdateMembership and BlacklistExecutor calls made
  local_be,            \* what local_be_desc_fn_ returns: Nil or a descriptor
  ss_recovering,       \* statestore_subscriber_->IsInPostRecoveryGracePeriod()
  cmm_crashed,         \* the process died on a null dereference
  last_call,           \* the latest writer call, its argument, what it did
  last_update,         \* the update of the latest UpdateMembership call, and
                       \* the blacklist timeouts that had elapsed, if it
                       \* was the latest step, and whether the call before
                       \* it had the same update (times = 2), and the
                       \* descriptors that its items replaced
  \* ---- HashTable ----
  ht_cfg,              \* quadratic_probing(), stores_nulls() and whether the
                       \* context's equality finds nulls
  num_buckets,         \* num_buckets_, a power of two
  buckets,             \* buckets_
  hash_array,          \* hash_array_
  num_filled_buckets,  \* num_filled_buckets_
  node_remaining_current_page, \* node_remaining_current_page_
  num_duplicate_nodes, \* num_duplicate_nodes_
  cur_expr_values_hash, \* the hash SetCurExprValuesHash stored last
  ht_inserted,         \* the rows for which Insert returned true
  ht_calls,            \* Insert calls made
  ht_last,             \* the latest call, its result and iterator
  probe_walk,          \* a probe that meets only filled buckets without a
                       \* match: the table size, the first bucket, bucket_idx,
                       \* step and the buckets visited so far
  \* ---- ClusterMembershipMgr: locks ----
  update_membership_lock,  \* holder of update_membership_lock_, or "free"
  callback_fn_lock,        \* holder of callback_fn_lock_, or "free"
  current_membership_lock, \* holder of current_membership_lock_, or "free"
  thread_at,           \* position of each thread in the call it makes
  callback_running,    \* the callback function being invoked, or "none"
  fns_set,             \* the callback functions installed
  setting,             \* the callback function being installed, or "none"
  \* ---- HashTable: iterators ----
  ht_matched,          \* the entries whose matched flag is set: bucket and
                       \* node of the chain, node 0 for a bucket without
                       \* duplicates
  has_matches,         \* has_matches_
  iterator,            \* bucket_idx_ and node_ of the iterator
  iterator_of,         \* the call that made the iterator: "Begin" or
                       \* "FirstUnmatched"; "crashed": the process died
  iter_visited         \* the entries the iterator has stood on

sinkVars == << sender_state, results, num_rows_requested, is_cancelled, lock,
               pcP, pcC, pcX, batch_rows, batch_first, current_batch_row,
               batches_sent, rows_total, cur_results, delivered, send_status,
               get_status, get_eos, cancel_found >>

cmmVars == << current_membership, recovering_membership, num_calls, local_be,
              ss_recovering, cmm_crashed, last_call, last_update >>

htVars == << ht_cfg, num_buckets, buckets, hash_array, num_filled_buckets,
             node_remaining_current_page, num_duplicate_nodes, ht_inserted,
             ht_calls, ht_last, cur_expr_values_hash >>

walkVars == << probe_walk >>

lockVars == << update_membership_lock, callback_fn_lock,
               current_membership_lock, thread_at, callback_running, fns_set,
               setting >>

iterVars == << ht_matched, has_matches, iterator, iterator_of, iter_visited >>

vars == << focus, sinkVars, cmmVars, htVars, walkVars, lockVars, iterVars >>

-----------------------------------------------------------------------------
(* Bounds of the model *)

\* Send calls a producer makes
MaxBatches == 2
\* rows of one batch: 0..MaxBatchRows
MaxBatchRows == 2
\* num_results of one GetNext call: 0..MaxRequest (0 = no limit)
MaxRequest == 2

Min(a, b) == IF a < b THEN a ELSE b

-----------------------------------------------------------------------------
(* BlockingPlanRootSink *)

SinkInit ==
  /\ sender_state = "ROWS_PENDING"
  /\ results = "null"
  /\ num_rows_requested = 0
  /\ is_cancelled = FALSE
  /\ lock = "free"
  /\ pcP = "idle"
  /\ pcC = "idle"
  /\ pcX = "idle"
  /\ batch_rows = 0
  /\ batch_first = 0
  /\ current_batch_row = 0
  /\ batches_sent = 0
  /\ rows_total = 0
  /\ cur_results = << >>
  /\ delivered = << >>
  /\ send_status = "none"
  /\ get_status = "none"
  /\ get_eos = FALSE
  /\ cancel_found = "none"

\* sender_cv_.NotifyAll(): a producer blocked in sender_cv_.Wait() is made
\* runnable (it still has to take lock_ again)
NotifySender(p) == IF p = "s_waiting" THEN "s_woken" ELSE p

\* consumer_cv_.NotifyAll()
NotifyConsumer(c) == IF c = "g_waiting" THEN "g_woken" ELSE c

\* mutant: num_rows_requested_ is ignored
NumToFetchAll(remaining, requested) == remaining

\* Send: num_to_fetch
NumToFetch(remaining, requested) ==
  IF requested > 0 THEN Min(remaining, requested) ELSE remaining

\* mutant: AddRows called with start index 0 instead of current_batch_row
BatchRowsFromZero(first, start_idx, num_rows) ==
  [i \in 1..num_rows |-> first + i]

\* QueryResultSet::AddRows(evals, batch, start_idx, num_rows): the rows
\* start_idx .. start_idx+num_rows-1 of the batch, named by their position in
\* the stream of all rows sent (first = rows in earlier batches)
BatchRowsFrom(first, start_idx, num_rows) ==
  [i \in 1..num_rows |-> first + start_idx + i]

\* RuntimeState::GetQueryStatus()
GetQueryStatus == IF is_cancelled THEN "CANCELLED" ELSE "OK"

\* mutant: a producer that goes on sending after FlushFinal
ProducerMaySendAfterFlush(call) ==
  CASE call = "Send" -> pcP \in {"idle", "flushed"}
    [] call = "FlushFinal" -> pcP = "idle"
    [] call = "Close" -> pcP \in {"idle", "flushed", "failed"}

\* The fragment instance calls Send for the batches it has, then FlushFinal and
\* Close; after a Send that failed, or on an error of its own, it calls Close
\* without FlushFinal
ProducerMay(call) ==
  CASE call = "Send" -> pcP = "idle"
    [] call = "FlushFinal" -> pcP = "idle"
    [] call = "Close" -> pcP \in {"idle", "flushed", "failed"}

\* Send, entry, with a batch of n rows: ValidateCollectionSlots,
\* UpdateAndCheckRowsProducedLimit
SendCallWith(n, limit_ok) ==
  /\ ProducerMay("Send")
  /\ batches_sent' = batches_sent + 1
  /\ batch_rows' = n
  /\ batch_first' = rows_total
  /\ rows_total' = rows_total + n
  /\ current_batch_row' = 0
  /\ IF limit_ok
       THEN pcP' = "s_loop" /\ UNCHANGED send_status
       ELSE pcP' = "failed" /\ send_status' = "ERROR"
  /\ UNCHANGED << sender_state, results, num_rows_requested, is_cancelled, lock,
                  pcC, pcX, cur_results, delivered, get_status, get_eos, cancel_found >>

SendCall ==
  /\ batches_sent < MaxBatches
  /\ \E n \in 0..MaxBatchRows, limit_ok \in BOOLEAN : SendCallWith(n, limit_ok)

\* Send: while (current_batch_row < batch->num_rows()) { unique_lock l(lock_);
SendLoop ==
  /\ pcP = "s_loop"
  /\ IF current_batch_row < batch_rows
       THEN /\ lock = "free"
            /\ lock' = "P"
            /\ pcP' = "s_check"
            /\ UNCHANGED send_status
       ELSE /\ pcP' = "idle"
            /\ send_status' = "OK"
            /\ UNCHANGED lock
  /\ UNCHANGED << sender_state, results, num_rows_requested, is_cancelled,
                  pcC, pcX, batch_rows, batch_first, current_batch_row,
                  batches_sent, rows_total, cur_results, delivered, get_status,
                  get_eos, cancel_found >>

\* Send: while (results_ == nullptr && !state->is_cancelled())
SendCheck ==
  /\ pcP = "s_check"
  /\ pcP' = IF results = "null" /\ ~is_cancelled THEN "s_prewait" ELSE "s_cancelchk"
  /\ UNCHANGED << sender_state, results, num_rows_requested, is_cancelled, lock,
                  pcC, pcX, batch_rows, batch_first, current_batch_row,
                  batches_sent, rows_total, cur_results, delivered, send_status,
                  get_status, get_eos, cancel_found >>

\* Send: sender_cv_.Wait(l) releases lock_ and blocks
SendWait ==
  /\ pcP = "s_prewait"
  /\ pcP' = "s_waiting"
  /\ lock' = "free"
  /\ UNCHANGED << sender_state, results, num_rows_requested, is_cancelled,
                  pcC, pcX, batch_rows, batch_first, current_batch_row,
                  batches_sent, rows_total, cur_results, delivered, send_status,
                  get_status, get_eos, cancel_found >>

\* Send: sender_cv_.Wait(l) returns holding lock_
SendWake ==
  /\ pcP = "s_woken"
  /\ lock = "free"
  /\ lock' = "P"
  /\ pcP' = "s_check"
  /\ UNCHANGED << sender_state, results, num_rows_requested, is_cancelled,
                  pcC, pcX, batch_rows, batch_first, current_batch_row,
                  batches_sent, rows_total, cur_results, delivered, send_status,
                  get_status, get_eos, cancel_found >>

\* mutant: Send without RETURN_IF_CANCELLED
SendNoCancelCheck ==
  /\ pcP = "s_cancelchk"
  /\ pcP' = "s_fill"
  /\ UNCHANGED << send_status, lock >>
  /\ UNCHANGED << sender_state, results, num_rows_requested, is_cancelled,
                  pcC, pcX, batch_rows, batch_first, current_batch_row,
                  batches_sent, rows_total, cur_results, delivered, get_status,
                  get_eos, cancel_found >>

\* Send: RETURN_IF_CANCELLED(state)
SendCancelCheck ==
  /\ pcP = "s_cancelchk"
  /\ IF is_cancelled
       THEN /\ pcP' = "failed"
            /\ send_status' = "CANCELLED"
            /\ lock' = "free"
       ELSE /\ pcP' = "s_fill"
            /\ UNCHANGED << send_status, lock >>
  /\ UNCHANGED << sender_state, results, num_rows_requested, is_cancelled,
                  pcC, pcX, batch_rows, batch_first, current_batch_row,
                  batches_sent, rows_total, cur_results, delivered, get_status,
                  get_eos, cancel_found >>

\* mutant: Send does not reset results_ after filling the result set
SendFillKeepResults ==
  /\ pcP = "s_fill"
  /\ \E add_ok \in BOOLEAN :
       IF add_ok
         THEN LET num_to_fetch ==
                    NumToFetch(batch_rows - current_batch_row, num_rows_requested)
                  rows == BatchRowsFrom(batch_first, current_batch_row, num_to_fetch)
              IN /\ cur_results' = cur_results \o rows
                 /\ delivered' = delivered \o rows
                 /\ current_batch_row' = current_batch_row + num_to_fetch
                 /\ results' = results
                 /\ pcC' = NotifyConsumer(pcC)
                 /\ pcP' = "s_loop"
                 /\ lock' = "free"
                 /\ UNCHANGED send_status
         ELSE /\ pcP' = "failed"
              /\ send_status' = "ERROR"
              /\ lock' = "free"
              /\ UNCHANGED << cur_results, delivered, current_batch_row, results, pcC >>
  /\ UNCHANGED << sender_state, num_rows_requested, is_cancelled, pcX,
                  batch_rows, batch_first, batches_sent, rows_total, get_status,
                  get_eos, cancel_found >>

\* Send: fill the result set, results_ = nullptr, consumer_cv_.NotifyAll()
SendFill ==
  /\ pcP = "s_fill"
  /\ \E add_ok \in BOOLEAN :
       IF add_ok
         THEN LET num_to_fetch ==
                    NumToFetch(batch_rows - current_batch_row, num_rows_requested)
                  rows == BatchRowsFrom(batch_first, current_batch_row, num_to_fetch)
              IN /\ cur_results' = cur_results \o rows
                 /\ delivered' = delivered \o rows
                 /\ current_batch_row' = current_batch_row + num_to_fetch
                 /\ results' = "null"
                 /\ pcC' = NotifyConsumer(pcC)
                 /\ pcP' = "s_loop"
                 /\ lock' = "free"
                 /\ UNCHANGED send_status
         ELSE \* RETURN_IF_ERROR(results_->AddRows(...))
              /\ pcP' = "failed"
              /\ send_status' = "ERROR"
              /\ lock' = "free"
              /\ UNCHANGED << cur_results, delivered, current_batch_row, results, pcC >>
  /\ UNCHANGED << sender_state, num_rows_requested, is_cancelled, pcX,
                  batch_rows, batch_first, batches_sent, rows_total, get_status,
                  get_eos, cancel_found >>

\* FlushFinal, the producer being at `at' after it
FlushFinalTo(at) ==
  /\ lock = "free"
  /\ sender_state' = "EOS"
  /\ pcC' = NotifyConsumer(pcC)
  /\ pcP' = at
  /\ UNCHANGED << results, num_rows_requested, is_cancelled, lock, pcX,
                  batch_rows, batch_first, current_batch_row, batches_sent,
                  rows_total, cur_results, delivered, send_status, get_status,
                  get_eos, cancel_found >>

FlushFinal == ProducerMay("FlushFinal") /\ FlushFinalTo("flushed")

\* FlushFinal called by a producer that has called Close already
FlushFinalAfterClose == pcP = "closed" /\ FlushFinalTo("closed")

\* mutant: Close sets CLOSED_NOT_EOS whatever the state
CloseAlwaysSets ==
  /\ ProducerMay("Close")
  /\ lock = "free"
  /\ sender_state' = "CLOSED_NOT_EOS"
  /\ pcC' = NotifyConsumer(pcC)
  /\ pcP' = "closed"
  /\ UNCHANGED << results, num_rows_requested, is_cancelled, lock, pcX,
                  batch_rows, batch_first, current_batch_row, batches_sent,
                  rows_total, cur_results, delivered, send_status, get_status,
                  get_eos, cancel_found >>

\* mutant: Close without consumer_cv_.NotifyAll()
CloseNoNotify ==
  /\ ProducerMay("Close")
  /\ lock = "free"
  /\ sender_state' = IF sender_state = "ROWS_PENDING"
                       THEN "CLOSED_NOT_EOS" ELSE sender_state
  /\ pcP' = "closed"
  /\ UNCHANGED << results, num_rows_requested, is_cancelled, lock, pcC, pcX,
                  batch_rows, batch_first, current_batch_row, batches_sent,
                  rows_total, cur_results, delivered, send_status, get_status,
                  get_eos, cancel_found >>

Close ==
  /\ ProducerMay("Close")
  /\ lock = "free"
  /\ sender_state' = IF sender_state = "ROWS_PENDING"
                       THEN "CLOSED_NOT_EOS" ELSE sender_state
  /\ pcC' = NotifyConsumer(pcC)
  /\ pcP' = "closed"
  /\ UNCHANGED << results, num_rows_requested, is_cancelled, lock, pcX,
                  batch_rows, batch_first, current_batch_row, batches_sent,
                  rows_total, cur_results, delivered, send_status, get_status,
                  get_eos, cancel_found >>

\* RuntimeState::Cancel() sets the flag; the caller then calls Cancel()
SetCancelled ==
  /\ pcX = "idle"
  /\ pcP # "closed"
  /\ is_cancelled' = TRUE
  /\ pcX' = "cancel_sender"
  /\ cancel_found' = IF pcP = "s_waiting" THEN "send_blocked"
                     ELSE IF pcC = "g_waiting" THEN "get_blocked" ELSE "running"
  /\ UNCHANGED << sender_state, results, num_rows_requested, lock, pcP, pcC,
                  batch_rows, batch_first, current_batch_row, batches_sent,
                  rows_total, cur_results, delivered, send_status, get_status,
                  get_eos >>

\* mutant: Cancel without sender_cv_.NotifyAll()
CancelNoNotifySender ==
  /\ pcX = "cancel_sender"
  /\ pcX' = "cancel_consumer"
  /\ UNCHANGED << sender_state, results, num_rows_requested, is_cancelled, lock,
                  pcP, pcC, batch_rows, batch_first, current_batch_row,
                  batches_sent, rows_total, cur_results, delivered, send_status,
                  get_status, get_eos, cancel_found >>

\* Cancel: sender_cv_.NotifyAll(), lock_ not held
CancelNotifySender ==
  /\ pcX = "cancel_sender"
  /\ pcP' = NotifySender(pcP)
  /\ pcX' = "cancel_consumer"
  /\ UNCHANGED << sender_state, results, num_rows_requested, is_cancelled, lock,
                  pcC, batch_rows, batch_first, current_batch_row, batches_sent,
                  rows_total, cur_results, delivered, send_status, get_status,
                  get_eos, cancel_found >>

\* Cancel: consumer_cv_.NotifyAll(), lock_ not held
CancelNotifyConsumer ==
  /\ pcX = "cancel_consumer"
  /\ pcC' = NotifyConsumer(pcC)
  /\ pcX' = "done"
  /\ UNCHANGED << sender_state, results, num_rows_requested, is_cancelled, lock,
                  pcP, batch_rows, batch_first, current_batch_row, batches_sent,
                  rows_total, cur_results, delivered, send_status, get_status,
                  get_eos, cancel_found >>

\* GetNext, entry: results_ = results; num_rows_requested_ = num_results;
\* sender_cv_.NotifyAll()
GetNextCallWith(n) ==
  /\ pcC = "idle"
  /\ lock = "free"
  /\ num_rows_requested' = n
  /\ lock' = "C"
  /\ results' = "cur"
  /\ cur_results' = << >>
  /\ pcP' = NotifySender(pcP)
  /\ pcC' = "g_check"
  /\ UNCHANGED << sender_state, is_cancelled, pcX, batch_rows, batch_first,
                  current_batch_row, batches_sent, rows_total, delivered,
                  send_status, get_status, get_eos, cancel_found >>

GetNextCall == \E n \in 0..MaxRequest : GetNextCallWith(n)

\* GetNext: while (sender_state_ == ROWS_PENDING && results_ != nullptr
\*                 && !state->is_cancelled())
GetNextCheck ==
  /\ pcC = "g_check"
  /\ pcC' = IF sender_state = "ROWS_PENDING" /\ results # "null" /\ ~is_cancelled
              THEN "g_prewait" ELSE "g_return"
  /\ UNCHANGED << sender_state, results, num_rows_requested, is_cancelled, lock,
                  pcP, pcX, batch_rows, batch_first, current_batch_row,
                  batches_sent, rows_total, cur_results, delivered, send_status,
                  get_status, get_eos, cancel_found >>

\* GetNext: consumer_cv_.Wait(l) releases lock_ and blocks
GetNextWait ==
  /\ pcC = "g_prewait"
  /\ pcC' = "g_waiting"
  /\ lock' = "free"
  /\ UNCHANGED << sender_state, results, num_rows_requested, is_cancelled,
                  pcP, pcX, batch_rows, batch_first, current_batch_row,
                  batches_sent, rows_total, cur_results, delivered, send_status,
                  get_status, get_eos, cancel_found >>

\* GetNext: consumer_cv_.Wait(l) returns holding lock_
GetNextWake ==
  /\ pcC = "g_woken"
  /\ lock = "free"
  /\ lock' = "C"
  /\ pcC' = "g_check"
  /\ UNCHANGED << sender_state, results, num_rows_requested, is_cancelled,
                  pcP, pcX, batch_rows, batch_first, current_batch_row,
                  batches_sent, rows_total, cur_results, delivered, send_status,
                  get_status, get_eos, cancel_found >>

\* GetNext: *eos = sender_state_ == EOS; return state->GetQueryStatus();
\* the caller fetches again while it has seen neither eos nor an error
GetNextReturn ==
  /\ pcC = "g_return"
  /\ get_eos' = (sender_state = "EOS")
  /\ get_status' = GetQueryStatus
  /\ lock' = "free"
  /\ results' = IF results = "cur" THEN "stale" ELSE results
  /\ pcC' = IF get_eos' \/ get_status' # "OK" THEN "done" ELSE "idle"
  /\ UNCHANGED << sender_state, num_rows_requested, is_cancelled, pcP, pcX,
                  batch_rows, batch_first, current_batch_row, batches_sent,
                  rows_total, cur_results, delivered, send_status, cancel_found >>

\* a condition-variable wait may return without a notification
SpuriousWakeSender ==
  /\ pcP = "s_waiting"
  /\ pcP' = "s_woken"
  /\ UNCHANGED << sender_state, results, num_rows_requested, is_cancelled, lock,
                  pcC, pcX, batch_rows, batch_first, current_batch_row,
                  batches_sent, rows_total, cur_results, delivered, send_status,
                  get_status, get_eos, cancel_found >>

SpuriousWakeConsumer ==
  /\ pcC = "g_waiting"
  /\ pcC' = "g_woken"
  /\ UNCHANGED << sender_state, results, num_rows_requested, is_cancelled, lock,
                  pcP, pcX, batch_rows, batch_first, current_batch_row,
                  batches_sent, rows_total, cur_results, delivered, send_status,
                  get_status, get_eos, cancel_found >>

ProducerStep ==
  \/ SendCall \/ SendLoop \/ SendCheck \/ SendWait \/ SendWake
  \/ SendCancelCheck \/ SendFill \/ FlushFinal \/ Close

ConsumerStep ==
  \/ GetNextCall \/ GetNextCheck \/ GetNextWait \/ GetNextWake \/ GetNextReturn

CancelStep == CancelNotifySender \/ CancelNotifyConsumer

SinkNext ==
  \/ SendCall \/ SendLoop \/ SendCheck \/ SendWait \/ SendWake
  \/ SendCancelCheck \/ SendFill \/ FlushFinal \/ Close
  \/ GetNextCall \/ GetNextCheck \/ GetNextWait \/ GetNextWake \/ GetNextReturn
  \/ SetCancelled \/ CancelNotifySender \/ CancelNotifyConsumer
  \/ SpuriousWakeSender \/ SpuriousWakeConsumer

\* the calls in any order: a producer that may call FlushFinal after Close
AnyOrderNext == SinkNext \/ FlushFinalAfterClose

-----------------------------------------------------------------------------
(* BlockingPlanRootSink: one batch fetched by two or three calls *)

\* rows of the batch the producer sends: more than the first GetNext call
\* asks for, HappyBatchRows at most
HappyBatchRows == 5
\* num_results of the first GetNext call
HappyFirstRequest == 3
\* num_results of the later GetNext calls
HappyNextRequest == 10

\* The producer sends one batch, then calls FlushFinal, then Close; the
\* consumer fetches until it sees eos. Nothing fails and nobody cancels.
HappyProducerStep ==
  \/ /\ batches_sent = 0
     /\ \E n \in (HappyFirstRequest + 1)..HappyBatchRows : SendCallWith(n, TRUE)
  \/ SendLoop \/ SendCheck \/ SendWait \/ SendWake \/ SendCancelCheck
  \/ SendFill /\ send_status' = send_status
  \/ batches_sent = 1 /\ FlushFinal
  \/ pcP = "flushed" /\ Close

HappyConsumerStep ==
  \/ GetNextCallWith(IF get_status = "none" THEN HappyFirstRequest
                     ELSE HappyNextRequest)
  \/ GetNextCheck \/ GetNextWait \/ GetNextWake \/ GetNextReturn

HappyNext ==
  \/ HappyProducerStep
  \/ HappyConsumerStep
  \/ SpuriousWakeSender \/ SpuriousWakeConsumer

-----------------------------------------------------------------------------
(* ClusterMembershipMgr: data *)

\* statestore subscriber ids (topic keys) of the backends of the cluster. A
\* backend's network address is named after its id.
Ids == {"A", "B", "L"}

\* local_backend_id_
local_backend_id == "L"

\* names of executor groups
Groups == {"g1", "g2"}

\* TBackendDescriptor::executor_groups of each backend
GroupsOf(id) == IF id = "B" THEN {"g1", "g2"} ELSE {"g1"}

\* a null BeDescSharedPtr / no descriptor stored under an address
NoDesc ==
  [addr |-> "none", is_executor |-> FALSE, is_quiescing |-> FALSE,
   executor_groups |-> {}]

\* TBackendDescriptor with a non-empty ip_address
BeDesc(id, exec, quiescing) ==
  [addr |-> id, is_executor |-> exec, is_quiescing |-> quiescing,
   executor_groups |-> GroupsOf(id)]

\* a topic update carries at most this many entries
MaxTopicEntries == 1
\* UpdateMembership builds snapshots up to this version
MaxVersion == 3
\* UpdateMembership and BlacklistExecutor calls of one run
MaxCalls == 4

\* TTopicItem for key `id': no item, a deletion, a value that does not
\* deserialize or has an empty ip_address, or a descriptor. A is a backend
\* of any kind, B an executor, L the local backend as another host sends it.
ItemsFor(id) ==
  {[kind |-> "absent", desc |-> NoDesc], [kind |-> "deleted", desc |-> NoDesc]}
  \cup (IF id = local_backend_id
          THEN {[kind |-> "desc", desc |-> BeDesc(id, TRUE, FALSE)]}
        ELSE IF id = "B"
          THEN {[kind |-> "desc", desc |-> BeDesc(id, TRUE, q)] : q \in BOOLEAN}
        ELSE {[kind |-> "bad", desc |-> NoDesc]} \cup
             {[kind |-> "desc", desc |-> BeDesc(id, e, q)] :
                  e \in BOOLEAN, q \in BOOLEAN})

AllItems == UNION {ItemsFor(id) : id \in Ids}

\* TTopicDelta of the membership topic
Updates ==
  {[is_delta |-> d, topic_entries |-> t] :
     d \in BOOLEAN,
     t \in {f \in [Ids -> AllItems] :
              /\ \A id \in Ids : f[id] \in ItemsFor(id)
              /\ Cardinality({id \in Ids : f[id].kind # "absent"})
                   <= MaxTopicEntries}}

\* ExecutorGroup (scheduling/executor-group.h): executors keyed by address
EmptyGroup == [a \in Ids |-> NoDesc]

AddExecutor(group, be_desc) ==
  IF group[be_desc.addr] # NoDesc THEN group
  ELSE [group EXCEPT ![be_desc.addr] = be_desc]

RemoveExecutor(group, be_desc) == [group EXCEPT ![be_desc.addr] = NoDesc]

LookUpBackendDesc(group, addr) == group[addr]

\* the loops "for group in be_desc.executor_groups:
\* FindOrInsertExecutorGroup(group, groups)->AddExecutor/RemoveExecutor(d)"
AddToGroups(groups, names, d) ==
  [g \in Groups |-> IF g \in names THEN AddExecutor(groups[g], d) ELSE groups[g]]

RemoveFromGroupsNone(groups, names, d) == groups

RemoveFromGroups(groups, names, d) ==
  [g \in Groups |-> IF g \in names THEN RemoveExecutor(groups[g], d)
                    ELSE groups[g]]

\* ExecutorBlacklist (scheduling/executor-blacklist.h): entries keyed by
\* address, each BLACKLISTED or ON_PROBATION
NotListed == [state |-> "NOT_BLACKLISTED", desc |-> NoDesc]

EmptyBlacklist == [a \in Ids |-> NotListed]

Blacklist(bl, be_desc) ==
  [bl EXCEPT ![be_desc.addr] = [state |-> "BLACKLISTED", desc |-> be_desc]]

\* FindAndRemove returns the state the entry had and removes it
FindState(bl, be_desc) == bl[be_desc.addr].state

FindAndRemove(bl, be_desc) == [bl EXCEPT ![be_desc.addr] = NotListed]

IsBlacklisted(bl, be_desc) == bl[be_desc.addr].state = "BLACKLISTED"

\* `due': the addresses whose blacklist or probation timeout has elapsed
NeedsMaintenance(bl, due) ==
  \E a \in due : bl[a].state # "NOT_BLACKLISTED"

\* Maintenance: a blacklisted entry that is due goes on probation and is
\* reported in probation_list, an entry on probation that is due is dropped
Maintenance(bl, due) ==
  [a \in Ids |->
     IF a \in due /\ bl[a].state = "BLACKLISTED"
       THEN [bl[a] EXCEPT !.state = "ON_PROBATION"]
     ELSE IF a \in due /\ bl[a].state = "ON_PROBATION" THEN NotListed
     ELSE bl[a]]

ProbationList(bl, due) ==
  {bl[a].desc : a \in {x \in due : bl[x].state = "BLACKLISTED"}}

\* Snapshot()
EmptySnapshot ==
  [version |-> 0, local_be_desc |-> NoDesc,
   current_backends |-> [id \in Ids |-> NoDesc],
   executor_groups |-> [g \in Groups |-> EmptyGroup],
   executor_blacklist |-> EmptyBlacklist]

\* Snapshot objects are named by their role when a call starts: "published"
\* is the object current_membership_ refers to, "private" the one only
\* recovering_membership_ refers to, "new" one the call allocates; "null" is a
\* null pointer.
NullState == [obj |-> "null", snap |-> EmptySnapshot]

-----------------------------------------------------------------------------
(* ClusterMembershipMgr: operations *)

CmmInit ==
  /\ current_membership = [obj |-> "published", snap |-> EmptySnapshot]
  /\ recovering_membership = NullState
  /\ num_calls = 0
  /\ local_be = NoDesc
  /\ ss_recovering = FALSE
  /\ cmm_crashed = FALSE
  /\ last_call = [op |-> "none", outcome |-> "none", x |-> "none",
                  written |-> "null", local_server |-> FALSE,
                  frontend |-> FALSE, arg |-> "none",
                  appended |-> 0, notified |-> {}]
  /\ last_update =
       [update |-> [is_delta |-> TRUE,
                    topic_entries |-> [id \in Ids |-> [kind |-> "absent",
                                                        desc |-> NoDesc]]],
        times |-> 0, due |-> {}, existing |-> [id \in Ids |-> NoDesc]]

\* mutant: a started local backend always needs an update
NeedsLocalBackendUpdateAlways(state, local_be_desc) == local_be_desc # NoDesc

NeedsLocalBackendUpdate(state, local_be_desc) ==
  IF local_be_desc = NoDesc THEN FALSE
  ELSE IF state.local_be_desc = NoDesc THEN TRUE
  ELSE IF state.current_backends[local_backend_id] = NoDesc THEN TRUE
  ELSE state.current_backends[local_backend_id].is_quiescing
         # local_be_desc.is_quiescing

CheckConsistency(current_backends, executor_groups, executor_blacklist) ==
  \A g \in Groups : \A a \in Ids :
    LET group_be == executor_groups[g][a] IN
    group_be # NoDesc =>
      /\ group_be.is_executor
      /\ ~group_be.is_quiescing
      /\ \E id \in Ids :
           /\ current_backends[id] # NoDesc
           /\ current_backends[id].addr = group_be.addr
           /\ current_backends[id].is_quiescing = group_be.is_quiescing
           /\ current_backends[id].is_executor = group_be.is_executor
      /\ ~IsBlacklisted(executor_blacklist, group_be)

\* mutant: a deleted backend is not taken off the blacklist
ApplyDeletedKeepBlacklist(st, key) ==
  IF st.current_backends[key] = NoDesc THEN st
  ELSE
    LET be_desc == st.current_backends[key]
        blacklisted == FindState(st.executor_blacklist, be_desc) = "BLACKLISTED"
    IN [current_backends |-> [st.current_backends EXCEPT ![key] = NoDesc],
        executor_groups |->
          IF be_desc.is_executor /\ ~be_desc.is_quiescing /\ ~blacklisted
            THEN RemoveFromGroups(st.executor_groups, be_desc.executor_groups,
                                  be_desc)
            ELSE st.executor_groups,
        executor_blacklist |-> st.executor_blacklist,
        update_local_server |-> TRUE]

\* mutant: a deletion does not ask for the local server to be notified
ApplyDeletedQuiet(st, key) ==
  IF st.current_backends[key] = NoDesc THEN st
  ELSE
    LET be_desc == st.current_backends[key]
        blacklisted == FindState(st.executor_blacklist, be_desc) = "BLACKLISTED"
    IN [current_backends |-> [st.current_backends EXCEPT ![key] = NoDesc],
        executor_groups |->
          IF be_desc.is_executor /\ ~be_desc.is_quiescing /\ ~blacklisted
            THEN RemoveFromGroups(st.executor_groups, be_desc.executor_groups,
                                  be_desc)
            ELSE st.executor_groups,
        executor_blacklist |-> FindAndRemove(st.executor_blacklist, be_desc),
        update_local_server |-> st.update_local_server]

\* UpdateMembership, the body of the loop over update.topic_entries:
\* deleted item
ApplyDeleted(st, key) ==
  IF st.current_backends[key] = NoDesc THEN st
  ELSE
    LET be_desc == st.current_backends[key]
        blacklisted == FindState(st.executor_blacklist, be_desc) = "BLACKLISTED"
    IN [current_backends |-> [st.current_backends EXCEPT ![key] = NoDesc],
        executor_groups |->
          IF be_desc.is_executor /\ ~be_desc.is_quiescing /\ ~blacklisted
            THEN RemoveFromGroups(st.executor_groups, be_desc.executor_groups,
                                  be_desc)
            ELSE st.executor_groups,
        executor_blacklist |-> FindAndRemove(st.executor_blacklist, be_desc),
        update_local_server |-> TRUE]

\* mutant: an update of an executor that is not quiescing and was not
\* blacklisted puts it into its groups
ApplyUpdatedReadd(st, key, be_desc) ==
  LET existing == st.current_backends[key]
      blacklisted == FindState(st.executor_blacklist, be_desc) = "BLACKLISTED"
  IN [st EXCEPT
        !.current_backends = [@ EXCEPT ![key] = be_desc],
        !.executor_groups =
          IF /\ be_desc.is_quiescing /\ ~existing.is_quiescing
             /\ existing.is_executor /\ ~blacklisted
            THEN RemoveFromGroups(@, be_desc.executor_groups, be_desc)
          ELSE IF ~be_desc.is_quiescing /\ be_desc.is_executor /\ ~blacklisted
            THEN AddToGroups(@, be_desc.executor_groups, be_desc)
          ELSE @,
        !.executor_blacklist = FindAndRemove(@, be_desc)]

\* mutant: an update of an existing backend leaves the groups alone
ApplyUpdatedKeepsGroups(st, key, be_desc) ==
  [st EXCEPT
     !.current_backends = [@ EXCEPT ![key] = be_desc],
     !.executor_blacklist = FindAndRemove(@, be_desc)]

\* existing item
ApplyUpdated(st, key, be_desc) ==
  LET existing == st.current_backends[key]
      blacklisted == FindState(st.executor_blacklist, be_desc) = "BLACKLISTED"
  IN [st EXCEPT
        !.current_backends = [@ EXCEPT ![key] = be_desc],
        !.executor_groups =
          IF /\ be_desc.is_quiescing /\ ~existing.is_quiescing
             /\ existing.is_executor /\ ~blacklisted
            THEN RemoveFromGroups(@, be_desc.executor_groups, be_desc)
            ELSE @,
        !.executor_blacklist = FindAndRemove(@, be_desc)]

\* new item
\* mutant: a new backend is not added to its executor groups
ApplyCreatedNoGroups(st, key, be_desc) ==
  [st EXCEPT !.current_backends = [@ EXCEPT ![key] = be_desc]]

ApplyCreated(st, key, be_desc) ==
  [st EXCEPT
     !.current_backends = [@ EXCEPT ![key] = be_desc],
     !.executor_groups =
       IF ~be_desc.is_quiescing /\ be_desc.is_executor
         THEN AddToGroups(@, be_desc.executor_groups, be_desc)
         ELSE @]

\* mutant: an item keyed by the local backend id is applied like any other
ApplyItemLocalToo(st, key, item) ==
  IF item.kind = "absent" THEN st
  ELSE IF item.kind = "deleted" THEN ApplyDeleted(st, key)
  ELSE IF item.kind = "bad" THEN st
  ELSE IF st.current_backends[key] # NoDesc
    THEN ApplyUpdated(st, key, item.desc)
  ELSE ApplyCreated(st, key, item.desc)

ApplyItem(st, key, item) ==
  IF item.kind = "absent" THEN st
  ELSE IF item.kind = "deleted" THEN ApplyDeleted(st, key)
  ELSE IF item.kind = "bad" THEN st
  ELSE IF key = local_backend_id THEN st
  ELSE IF st.current_backends[key] # NoDesc
    THEN ApplyUpdated(st, key, item.desc)
  ELSE ApplyCreated(st, key, item.desc)

\* the order of update.topic_entries
KeyOrder == << "A", "B", "L" >>

\* mutant: an item that cannot be used ends the loop over the items
RECURSIVE ApplyItemsStopAtBad(_, _, _)
ApplyItemsStopAtBad(st, topic_entries, i) ==
  IF i > Len(KeyOrder) THEN st
  ELSE IF topic_entries[KeyOrder[i]].kind = "bad" THEN st
  ELSE ApplyItemsStopAtBad(
         ApplyItem(st, KeyOrder[i], topic_entries[KeyOrder[i]]),
         topic_entries, i + 1)

RECURSIVE ApplyItems(_, _, _)
ApplyItems(st, topic_entries, i) ==
  IF i > Len(KeyOrder) THEN st
  ELSE ApplyItems(ApplyItem(st, KeyOrder[i], topic_entries[KeyOrder[i]]),
                  topic_entries, i + 1)

\* UpdateMembership: "if (needs_blacklist_maintenance) ..."
ApplyMaintenance(st, due) ==
  LET probation_list == ProbationList(st.executor_blacklist, due)
      RECURSIVE AddAll(_, _)
      AddAll(groups, ds) ==
        IF ds = {} THEN groups
        ELSE LET d == CHOOSE e \in ds : TRUE
             IN AddAll(AddToGroups(groups, d.executor_groups, d), ds \ {d})
  IN [st EXCEPT
        !.executor_blacklist = Maintenance(@, due),
        !.executor_groups = AddAll(@, probation_list)]

\* UpdateMembership: "if (NeedsLocalBackendUpdate(*new_state, local_be_desc))"
ApplyLocalBackend(st, local_be_desc) ==
  [st EXCEPT
     !.current_backends = [@ EXCEPT ![local_backend_id] = local_be_desc],
     !.executor_groups =
       IF local_be_desc.is_quiescing
         THEN RemoveFromGroups(@, local_be_desc.executor_groups, local_be_desc)
       ELSE IF local_be_desc.is_executor
         THEN AddToGroups(@, local_be_desc.executor_groups, local_be_desc)
       ELSE @]

\* mutant: a delta is applied to the current snapshot without a copy
NewStateInPlace(is_delta) ==
  IF ~is_delta THEN [obj |-> "new", snap |-> EmptySnapshot]
  ELSE IF recovering_membership.obj # "null" THEN recovering_membership
  ELSE current_membership

\* mutant: a full transmit starts from a copy of the current snapshot
NewStateFromCurrent(is_delta) ==
  IF is_delta /\ recovering_membership.obj # "null" THEN recovering_membership
  ELSE [obj |-> "new", snap |-> current_membership.snap]

\* UpdateMembership: the new state it starts from, in the object it is built in
NewState(is_delta) ==
  IF ~is_delta THEN [obj |-> "new", snap |-> EmptySnapshot]
  ELSE IF recovering_membership.obj # "null" THEN recovering_membership
  ELSE [obj |-> "new", snap |-> current_membership.snap]

\* NotifyLocalServerForDeletedBackend: current_backend_set
AddressSet(current_backends) ==
  {current_backends[id].addr : id \in {i \in Ids : current_backends[i] # NoDesc}}

\* UpdateMembership from "new_state->local_be_desc = local_be_desc" to
\* UpdateMetrics: the snapshot built from `start', whether the local server
\* needs an update, and whether the local backend was added to the
\* subscriber's topic updates
BuildSnapshot(start, update, due, maintain, local_be_desc, uls) ==
  LET s0 == [version |-> start.version + 1,
             local_be_desc |-> IF local_be_desc # NoDesc THEN local_be_desc
                               ELSE start.local_be_desc]
      st0 == [current_backends |-> start.current_backends,
              executor_groups |-> start.executor_groups,
              executor_blacklist |-> start.executor_blacklist,
              update_local_server |-> uls]
      st1 == ApplyItems(st0, update.topic_entries, 1)
      st2 == IF maintain THEN ApplyMaintenance(st1, due) ELSE st1
      local == NeedsLocalBackendUpdate(
                 [local_be_desc |-> s0.local_be_desc,
                  current_backends |-> st2.current_backends], local_be_desc)
      st3 == IF local THEN ApplyLocalBackend(st2, local_be_desc) ELSE st2
  IN [snap |-> [version |-> s0.version, local_be_desc |-> s0.local_be_desc,
                current_backends |-> st3.current_backends,
                executor_groups |-> st3.executor_groups,
                executor_blacklist |-> st3.executor_blacklist],
      update_local_server |-> st3.update_local_server,
      topic_update |-> local]

\* no UpdateMembership call to compare the next one with
NoUpdate ==
  [update |-> [is_delta |-> TRUE,
               topic_entries |-> [id \in Ids |-> [kind |-> "absent",
                                                   desc |-> NoDesc]]],
   times |-> 0, due |-> {}, existing |-> [id \in Ids |-> NoDesc]]

\* GetSnapshot: the snapshot a reader gets
GetSnapshot == current_membership.snap

AfterWritePublished(new_state, snap, publish) ==
  /\ current_membership' = [obj |-> "published", snap |-> snap]
  /\ recovering_membership' =
       IF publish THEN NullState
       ELSE [obj |-> IF new_state.obj = "new" THEN "private" ELSE new_state.obj,
             snap |-> snap]

\* A call has built `snap' in the object new_state.obj. current_membership_
\* and recovering_membership_ afterwards: a pointer to the object written sees
\* `snap'; SetState(new_state) makes the object the published one, and
\* UpdateMembership then resets recovering_membership_; otherwise the object
\* is kept as recovering_membership_.
AfterWrite(new_state, snap, publish) ==
  /\ current_membership' =
       IF publish \/ new_state.obj = current_membership.obj
         THEN [obj |-> "published", snap |-> snap]
       ELSE current_membership
  /\ recovering_membership' =
       IF publish THEN NullState
       ELSE [obj |-> IF new_state.obj = "new" THEN "private" ELSE new_state.obj,
             snap |-> snap]

\* UpdateMembership when the membership topic is not in
\* incoming_topic_deltas
UpdateMembershipNoTopic ==
  /\ ~cmm_crashed
  /\ num_calls < MaxCalls
  /\ num_calls' = num_calls + 1
  /\ last_call' = [op |-> "UpdateMembership", outcome |-> "no_topic",
                   x |-> "none", written |-> "null", local_server |-> FALSE,
                   frontend |-> FALSE, arg |-> "none",
                   appended |-> 0, notified |-> {}]
  /\ last_update' = NoUpdate
  /\ UNCHANGED << current_membership, recovering_membership >>
  /\ UNCHANGED << local_be, ss_recovering, cmm_crashed >>

\* UpdateMembership with `update' as the delta of the membership topic
UpdateMembershipWith(update) ==
  /\ ~cmm_crashed
  /\ num_calls < MaxCalls
  /\ num_calls' = num_calls + 1
  /\   LET no_ss_update ==
              /\ update.is_delta
              /\ \A id \in Ids : update.topic_entries[id].kind = "absent"
            base_snapshot ==
              IF recovering_membership.obj # "null"
                THEN recovering_membership.snap
              ELSE current_membership.snap
            local_be_desc == local_be
            needs_local_be_update ==
              NeedsLocalBackendUpdate(base_snapshot, local_be_desc)
            ss_is_recovering == ss_recovering
            update_local_server ==
              recovering_membership.obj # "null" /\ ~ss_is_recovering
            listed == {a \in Ids :
                         base_snapshot.executor_blacklist[a].state
                           # "NOT_BLACKLISTED"}
            deletes_blacklisted ==
              IF /\ last_call.op = "BlacklistExecutor"
                 /\ last_call.x # "none"
                 /\ update.topic_entries[last_call.x].kind = "deleted"
                THEN last_call.x ELSE "none"
        IN \E due \in SUBSET listed :
           LET needs_blacklist_maintenance ==
                 NeedsMaintenance(base_snapshot.executor_blacklist, due)
           IN
           /\ last_update' =
                [update |-> update,
                 times |-> IF /\ last_update.times > 0
                              /\ last_update.update = update /\ due = {}
                             THEN 2 ELSE 1,
                 due |-> due,
                 existing |->
                   [id \in Ids |->
                      IF update.is_delta /\ update.topic_entries[id].kind = "desc"
                        THEN base_snapshot.current_backends[id]
                      ELSE NoDesc]]
           /\ IF /\ no_ss_update /\ ~needs_local_be_update
                 /\ ~update_local_server /\ ~needs_blacklist_maintenance
              THEN
                /\ last_call' = [op |-> "UpdateMembership",
                                 outcome |-> "skipped",
                                 x |-> deletes_blacklisted,
                                 written |-> "null", local_server |-> FALSE,
                                 frontend |-> FALSE, arg |-> "none",
                                 appended |-> 0, notified |-> {}]
                /\ UNCHANGED << current_membership, recovering_membership >>
              ELSE
                \E new_state \in {NewState(update.is_delta)} :
                \E built \in
                     {BuildSnapshot(new_state.snap, update, due,
                                    needs_blacklist_maintenance, local_be_desc,
                                    update_local_server \/ ~update.is_delta)} :
                   /\ new_state.snap.version < MaxVersion
                   /\ AfterWrite(new_state, built.snap, ~ss_is_recovering)
                   /\ last_call' =
                        [op |-> "UpdateMembership",
                         outcome |-> IF ss_is_recovering THEN "kept_recovering"
                                     ELSE "published",
                         x |-> deletes_blacklisted,
                         written |-> new_state.obj,
                         local_server |->
                           ~ss_is_recovering /\ built.update_local_server,
                         frontend |-> ~ss_is_recovering, arg |-> "none",
                         appended |-> IF built.topic_update THEN 1 ELSE 0,
                         notified |->
                           IF ~ss_is_recovering /\ built.update_local_server
                             THEN AddressSet(built.snap.current_backends)
                           ELSE {}]
  /\ UNCHANGED << local_be, ss_recovering, cmm_crashed >>

UpdateMembership ==
  \/ UpdateMembershipNoTopic
  \/ \E update \in Updates : UpdateMembershipWith(update)

\* BlacklistExecutor: the state it modifies, in the object it is built in
BlacklistNewState ==
  IF recovering_membership.obj # "null" THEN recovering_membership
  ELSE [obj |-> "new", snap |-> current_membership.snap]

\* BlacklistExecutor(be_desc) with the descriptor of executor `id' as the
\* coordinator has it. With no local backend descriptor in the current
\* snapshot, the comparison with the local backend reads through a null
\* pointer and the process is killed.
BlacklistExecutor ==
  /\ ~cmm_crashed
  /\ num_calls < MaxCalls
  /\ num_calls' = num_calls + 1
  /\ \E id \in Ids :
     LET be_desc == BeDesc(id, TRUE, FALSE)
         no_local == current_membership.snap.local_be_desc = NoDesc
         is_local == be_desc.addr = current_membership.snap.local_be_desc.addr
         recovering == recovering_membership.obj # "null"
         base_snapshot ==
           IF recovering THEN recovering_membership.snap
           ELSE current_membership.snap
         exists ==
           \E g \in be_desc.executor_groups :
             LookUpBackendDesc(base_snapshot.executor_groups[g], be_desc.addr)
               # NoDesc
         returned(why) ==
           /\ last_call' = [op |-> "BlacklistExecutor", outcome |-> why,
                            x |-> "none", written |-> "null",
                            local_server |-> FALSE, frontend |-> FALSE,
                            arg |-> id,
                            appended |-> 0, notified |-> {}]
           /\ UNCHANGED << current_membership, recovering_membership,
                           cmm_crashed >>
     IN IF no_local
          THEN /\ cmm_crashed' = TRUE
               /\ last_call' = [op |-> "BlacklistExecutor",
                                outcome |-> "crashed", x |-> "none",
                                written |-> "null", local_server |-> FALSE,
                                frontend |-> FALSE, arg |-> id,
                                appended |-> 0, notified |-> {}]
               /\ UNCHANGED << current_membership, recovering_membership >>
        ELSE IF is_local THEN returned("local")
        ELSE IF ~exists THEN returned("not_found")
        ELSE
          LET new_state == BlacklistNewState
              snap == [new_state.snap EXCEPT
                         !.executor_groups =
                           RemoveFromGroups(@, be_desc.executor_groups,
                                            be_desc),
                         !.executor_blacklist = Blacklist(@, be_desc)]
          IN /\ AfterWrite(new_state, snap, ~recovering)
             /\ last_call' =
                  [op |-> "BlacklistExecutor",
                   outcome |-> IF recovering THEN "kept_recovering"
                               ELSE "published",
                   x |-> id, written |-> new_state.obj,
                   local_server |-> FALSE, frontend |-> FALSE, arg |-> id,
                   appended |-> 0, notified |-> {}]
             /\ UNCHANGED cmm_crashed
  /\ last_update' = NoUpdate
  /\ UNCHANGED << local_be, ss_recovering >>

\* the statestore subscriber enters or leaves its post-recovery grace period
PostRecoveryGracePeriod ==
  /\ ~cmm_crashed
  /\ ss_recovering' = ~ss_recovering
  /\ UNCHANGED << current_membership, recovering_membership, num_calls,
                  local_be, cmm_crashed, last_call >>
  /\ last_update' = NoUpdate

\* the local backend, an executor, starts: local_be_desc_fn_ returns its
\* descriptor from now on
LocalBackendStart ==
  /\ ~cmm_crashed
  /\ local_be = NoDesc
  /\ local_be' = BeDesc(local_backend_id, TRUE, FALSE)
  /\ UNCHANGED << current_membership, recovering_membership, num_calls,
                  ss_recovering, cmm_crashed, last_call >>
  /\ last_update' = NoUpdate

\* the local backend starts to shut down
LocalBackendQuiesce ==
  /\ ~cmm_crashed
  /\ local_be # NoDesc /\ ~local_be.is_quiescing
  /\ local_be' = [local_be EXCEPT !.is_quiescing = TRUE]
  /\ UNCHANGED << current_membership, recovering_membership, num_calls,
                  ss_recovering, cmm_crashed, last_call >>
  /\ last_update' = NoUpdate

CmmNext ==
  \/ UpdateMembership \/ BlacklistExecutor
  \/ PostRecoveryGracePeriod \/ LocalBackendStart \/ LocalBackendQuiesce

-----------------------------------------------------------------------------
(* ClusterMembershipMgr: a delta that adds A and B, then a delta that
   deletes A *)

\* a delta with these items and no other
DeltaOf(items) ==
  [is_delta |-> TRUE,
   topic_entries |-> [id \in Ids |->
                        IF id \in DOMAIN items THEN items[id]
                        ELSE [kind |-> "absent", desc |-> NoDesc]]]

\* {id=A, executor, groups=[g1]} and {id=B, executor, groups=[g1,g2]}
DeltaAddsAB ==
  DeltaOf([id \in {"A", "B"} |->
             [kind |-> "desc", desc |-> BeDesc(id, TRUE, FALSE)]])

DeltaDeletesA ==
  DeltaOf([id \in {"A"} |-> [kind |-> "deleted", desc |-> NoDesc]])

\* The statestore sends the two deltas, then deltas without items, while
\* the local backend may start and the subscriber may enter and leave its
\* post-recovery grace period
DeltaNext ==
  \/ num_calls = 0 /\ UpdateMembershipWith(DeltaAddsAB)
  \/ num_calls = 1 /\ UpdateMembershipWith(DeltaDeletesA)
  \/ num_calls >= 2 /\ UpdateMembershipWith(DeltaOf(<< >>))
  \/ PostRecoveryGracePeriod
  \/ LocalBackendStart
  \/ LocalBackendQuiesce

-----------------------------------------------------------------------------
(* ClusterMembershipMgr: updates in which the item of A cannot be used and
   the other keys carry any item *)

MixedUpdates ==
  {[is_delta |-> d, topic_entries |-> t] :
     d \in BOOLEAN,
     t \in {f \in [Ids -> AllItems] :
              /\ f["A"].kind = "bad"
              /\ \A id \in Ids : f[id] \in ItemsFor(id)}}

UpdateMembershipMixed ==
  \E update \in MixedUpdates : UpdateMembershipWith(update)

\* The statestore sends updates of one item and updates with an unusable
\* item among others, while the local backend may start and the subscriber
\* may enter and leave its post-recovery grace period
MixedNext ==
  \/ UpdateMembership
  \/ UpdateMembershipMixed
  \/ PostRecoveryGracePeriod
  \/ LocalBackendStart

-----------------------------------------------------------------------------
(* HashTable: data *)

\* log2 of num_buckets_
LogNumBuckets == 2
\* Insert calls of one run
MaxRows == 3
\* DuplicateNodes of one page of the node array
NodesPerPage == 2

\* doublings of the table in one run
MaxResizes == 1

\* num_buckets_ of the table when it is created, a power of two
InitialBuckets == 2 ^ LogNumBuckets

\* Iterator::BUCKET_NOT_FOUND
BUCKET_NOT_FOUND == -1

\* the values the build and probe expression evaluates to; "NULL" is SQL NULL
Keys == {"NULL", "k1", "k2", "k3", "k4"}

\* HashTableCtx::HashRow: k1 and k3 have the same hash; k2 and NULL have other
\* hashes with the same low bits; k4 falls into the next bucket
HashRow(key) ==
  CASE key = "k1" -> 3
    [] key = "k3" -> 3
    [] key = "k2" -> 3 + InitialBuckets
    [] key = "NULL" -> 3 + 2 * InitialBuckets
    [] key = "k4" -> 4

\* hash & (n - 1), n a power of two
Mask(h, n) == h % n

\* HashTableCtx::Equals<INCLUSIVE_EQUALITY> of the row in the table against
\* the cached expression values: NULL equals NULL only with inclusive
\* equality or when the context finds nulls
Equals(inclusive, row_key, key) ==
  IF row_key = "NULL" /\ key = "NULL" THEN inclusive \/ ht_cfg.finds_nulls
  ELSE row_key = key

\* a row of the build side: the n-th row inserted, with its expression value
Row(n, key) == [id |-> n, key |-> key]

NoRow == [id |-> 0, key |-> "none"]

EmptyBucket ==
  [filled |-> FALSE, hasDuplicates |-> FALSE, row |-> NoRow,
   duplicates |-> << >>]

\* Iterator::End()
End == [bucket_idx |-> BUCKET_NOT_FOUND, node |-> 0]

\* an empty table that stores duplicates (stores_duplicates() holds)
HtInit ==
  /\ ht_cfg \in [quadratic_probing : BOOLEAN, stores_nulls : BOOLEAN,
                 finds_nulls : BOOLEAN]
  /\ num_buckets = InitialBuckets
  /\ buckets = [i \in 0..(InitialBuckets - 1) |-> EmptyBucket]
  /\ hash_array = [i \in 0..(InitialBuckets - 1) |-> 0]
  /\ num_filled_buckets = 0
  /\ node_remaining_current_page = 0
  /\ num_duplicate_nodes = 0
  /\ cur_expr_values_hash = 0
  /\ ht_inserted = {}
  /\ ht_calls = 0
  /\ ht_last = [op |-> "none", key |-> "none", ok |-> FALSE, it |-> End]

\* GetRow(bucket, ...): the row of the bucket, the head of its chain if it
\* has duplicates
GetRow(bucket) ==
  IF bucket.hasDuplicates THEN Head(bucket.duplicates) ELSE bucket.row

\* Iterator::GetRow
IteratorGetRow(it) ==
  IF buckets[it.bucket_idx].hasDuplicates
    THEN buckets[it.bucket_idx].duplicates[it.node]
  ELSE buckets[it.bucket_idx].row

\* mutant: the step is added twice
NextBucketTwice(bucket_idx, step, n) ==
  IF ht_cfg.quadratic_probing THEN Mask(bucket_idx + 2 * step, n)
  ELSE Mask(bucket_idx + 2, n)

\* Probe: "move to the next bucket" of a table of n buckets
NextBucket(bucket_idx, step, n) ==
  IF ht_cfg.quadratic_probing THEN Mask(bucket_idx + step, n)
  ELSE Mask(bucket_idx + 1, n)

\* mutant: a bucket with the hash probed for ends the loop as found whether
\* rows are compared or not
RECURSIVE ProbeLoopHashOnly(_, _, _, _, _, _, _, _, _)
ProbeLoopHashOnly(bkts, harr, n, incl, compare_row, hash, key, bucket_idx, step) ==
  IF ~bkts[bucket_idx].filled
    THEN [bucket_idx |-> bucket_idx, found |-> FALSE]
  ELSE IF /\ hash = harr[bucket_idx]
          /\ compare_row => Equals(incl, GetRow(bkts[bucket_idx]).key, key)
    THEN [bucket_idx |-> bucket_idx, found |-> TRUE]
  ELSE IF step + 1 < n
    THEN ProbeLoopHashOnly(bkts, harr, n, incl, compare_row, hash, key,
                           NextBucket(bucket_idx, step + 1, n), step + 1)
  ELSE [bucket_idx |-> BUCKET_NOT_FOUND, found |-> FALSE]

\* Probe: the do-while loop from bucket_idx with `step' steps taken, over the
\* arrays bkts and harr of n buckets
RECURSIVE ProbeLoop(_, _, _, _, _, _, _, _, _)
ProbeLoop(bkts, harr, n, inclusive, compare_row, hash, key, bucket_idx, step) ==
  IF ~bkts[bucket_idx].filled
    THEN [bucket_idx |-> bucket_idx, found |-> FALSE]
  ELSE IF /\ hash = harr[bucket_idx]
          /\ compare_row
          /\ Equals(inclusive, GetRow(bkts[bucket_idx]).key, key)
    THEN [bucket_idx |-> bucket_idx, found |-> TRUE]
  ELSE IF step + 1 < n
    THEN ProbeLoop(bkts, harr, n, inclusive, compare_row, hash, key,
                   NextBucket(bucket_idx, step + 1, n), step + 1)
  ELSE [bucket_idx |-> BUCKET_NOT_FOUND, found |-> FALSE]

\* mutant: the first bucket is computed with num_buckets_ of the table, not
\* with the number of buckets of the arrays passed in
ProbeMemberSize(bkts, harr, n, inclusive, compare_row, hash, key) ==
  ProbeLoop(bkts, harr, n, inclusive, compare_row, hash, key,
            Mask(hash, num_buckets), 0)

Probe(bkts, harr, n, inclusive, compare_row, hash, key) ==
  ProbeLoop(bkts, harr, n, inclusive, compare_row, hash, key, Mask(hash, n), 0)

NumInsertsBeforeResize ==
  IF (num_buckets * 3) \div 4 - num_filled_buckets > 0
    THEN (num_buckets * 3) \div 4 - num_filled_buckets
  ELSE 0

\* mutant: the hash of the new entry is not stored
PrepareBucketNoHash(bucket_idx, hash) ==
  /\ num_filled_buckets' = num_filled_buckets + 1
  /\ hash_array' = hash_array

\* mutant: a new entry counts as two filled buckets
PrepareBucketCountsTwice(bucket_idx, hash) ==
  /\ num_filled_buckets' = num_filled_buckets + 2
  /\ hash_array' = [hash_array EXCEPT ![bucket_idx] = hash]

PrepareBucketForInsert(bucket_idx, hash) ==
  /\ num_filled_buckets' = num_filled_buckets + 1
  /\ hash_array' = [hash_array EXCEPT ![bucket_idx] = hash]

\* FindProbeRow with `key' and its hash in the expression values cache
FindProbeRow(key) ==
  LET p == Probe(buckets, hash_array, num_buckets, FALSE, TRUE,
                 HashRow(key), key)
  IN IF p.found
       THEN [bucket_idx |-> p.bucket_idx,
             node |-> IF buckets[p.bucket_idx].hasDuplicates THEN 1 ELSE 0]
     ELSE End

\* mutant: the new node is linked at the end of the chain
InsertDuplicateNodeAtTail(bucket, row) ==
  [filled |-> TRUE, hasDuplicates |-> TRUE, row |-> NoRow,
   duplicates |-> (IF bucket.hasDuplicates THEN bucket.duplicates
                   ELSE << bucket.row >>) \o << row >>]

\* InsertDuplicateNode, then Insert's store into the new node: the first
\* duplicate turns the row of the bucket into a node; the new node is linked
\* in front of the chain
InsertDuplicateNode(bucket, row) ==
  [filled |-> TRUE, hasDuplicates |-> TRUE, row |-> NoRow,
   duplicates |-> << row >> \o (IF bucket.hasDuplicates THEN bucket.duplicates
                                ELSE << bucket.row >>)]

\* mutant: a row with a NULL is discarded whether or not the table stores
\* nulls
EvalAndHashBuildNoNulls(key) == key # "NULL"

\* HashTableCtx::EvalAndHashBuild: false if the row is discarded, true if
\* its hash is stored in the expression values cache
EvalAndHashBuild(key) == ~(~ht_cfg.stores_nulls /\ key = "NULL")

\* mutant: a row with a NULL is probed as soon as the table stores nulls
EvalAndHashProbeStoresNulls(key) == ~(key = "NULL" /\ ~ht_cfg.stores_nulls)

\* HashTableCtx::EvalAndHashProbe: false if the row is skipped, true if its
\* hash is stored in the expression values cache
EvalAndHashProbe(key) ==
  ~(key = "NULL" /\ ~(ht_cfg.stores_nulls /\ ht_cfg.finds_nulls))

\* mutant: the row of the bucket is turned into a node before the node
\* array is grown
GrowNodeArrayFailedLate(bucket) ==
  IF bucket.hasDuplicates THEN bucket
  ELSE [filled |-> TRUE, hasDuplicates |-> TRUE, row |-> NoRow,
        duplicates |-> << bucket.row >>]

\* InsertDuplicateNode when GrowNodeArray fails: it returns NULL from the
\* loop that makes room, before it touches the bucket
GrowNodeArrayFailed(bucket) == bucket

\* EvalAndHashBuild, then Insert if the row is not discarded. The caller has
\* made room: NumInsertsBeforeResize() > 0. Growing the node array can fail.
Insert ==
  /\ ht_calls < MaxRows
  /\ NumInsertsBeforeResize > 0
  /\ ht_calls' = ht_calls + 1
  /\ \E key \in Keys, grow_ok \in BOOLEAN :
     LET row == Row(ht_calls + 1, key)
         hash == HashRow(key)
         p == Probe(buckets, hash_array, num_buckets, TRUE, TRUE, hash, key)
         bucket == buckets[p.bucket_idx]
         needed == IF bucket.hasDuplicates THEN 1 ELSE 2
         grows == node_remaining_current_page < needed
         remaining == IF grows THEN NodesPerPage
                      ELSE node_remaining_current_page
         failed(op) ==
           /\ ht_last' = [op |-> op, key |-> key, ok |-> FALSE, it |-> End]
           /\ UNCHANGED << hash_array, num_filled_buckets,
                           node_remaining_current_page, num_duplicate_nodes,
                           ht_inserted >>
         stored ==
           cur_expr_values_hash' =
             IF EvalAndHashBuild(key) THEN hash ELSE cur_expr_values_hash
     IN stored /\
        IF ~EvalAndHashBuild(key)
          THEN grow_ok /\ failed("EvalAndHashBuild") /\ UNCHANGED buckets
        ELSE IF p.found /\ grows /\ ~grow_ok
          THEN /\ failed("Insert")
               /\ buckets' = [buckets EXCEPT ![p.bucket_idx] =
                                            GrowNodeArrayFailed(bucket)]
        ELSE IF p.found THEN
          /\ buckets' = [buckets EXCEPT ![p.bucket_idx] =
                                       InsertDuplicateNode(bucket, row)]
          /\ node_remaining_current_page' = remaining - needed
          /\ num_duplicate_nodes' = num_duplicate_nodes + needed
          /\ ht_inserted' = ht_inserted \cup {row}
          /\ ht_last' = [op |-> "Insert", key |-> key, ok |-> TRUE,
                         it |-> [bucket_idx |-> p.bucket_idx, node |-> 1]]
          /\ UNCHANGED << hash_array, num_filled_buckets >>
        ELSE
          /\ grow_ok
          /\ PrepareBucketForInsert(p.bucket_idx, hash)
          /\ buckets' =
               [buckets EXCEPT ![p.bucket_idx] =
                  [filled |-> TRUE, hasDuplicates |-> FALSE, row |-> row,
                   duplicates |-> << >>]]
          /\ ht_inserted' = ht_inserted \cup {row}
          /\ ht_last' = [op |-> "Insert", key |-> key, ok |-> TRUE,
                         it |-> [bucket_idx |-> p.bucket_idx, node |-> 0]]
          /\ UNCHANGED << node_remaining_current_page, num_duplicate_nodes >>
  /\ UNCHANGED << ht_cfg, num_buckets >>

\* EvalAndHashProbe, then FindProbeRow if the row is not skipped
ProbeRow ==
  /\ \E key \in Keys :
       IF ~EvalAndHashProbe(key)
         THEN /\ ht_last' = [op |-> "EvalAndHashProbe", key |-> key,
                             ok |-> FALSE, it |-> End]
              /\ UNCHANGED cur_expr_values_hash
       ELSE LET it == FindProbeRow(key)
            IN /\ cur_expr_values_hash' = HashRow(key)
               /\ ht_last' = [op |-> "FindProbeRow", key |-> key,
                              ok |-> it # End, it |-> it]
  /\ UNCHANGED << ht_cfg, num_buckets, buckets, hash_array,
                  num_filled_buckets,
                  node_remaining_current_page, num_duplicate_nodes,
                  ht_inserted, ht_calls >>

\* Iterator::NextDuplicate: the iterator after the call
IteratorNextDuplicate(it) ==
  IF /\ buckets[it.bucket_idx].hasDuplicates
     /\ it.node < Len(buckets[it.bucket_idx].duplicates)
    THEN [it EXCEPT !.node = it.node + 1]
  ELSE End

\* Iterator::NextDuplicate on the iterator of the latest FindProbeRow
NextDuplicate ==
  /\ ht_last.op \in {"FindProbeRow", "NextDuplicate"}
  /\ ht_last.it # End
  /\ LET next == IteratorNextDuplicate(ht_last.it)
     IN ht_last' = [op |-> "NextDuplicate", key |-> ht_last.key,
                    ok |-> next # End, it |-> next]
  /\ UNCHANGED << ht_cfg, num_buckets, buckets, hash_array,
                  num_filled_buckets,
                  node_remaining_current_page, num_duplicate_nodes,
                  ht_inserted, ht_calls, cur_expr_values_hash >>

\* ResizeBuckets to twice the buckets: every filled bucket, in the order of
\* the old array from bucket i on, is probed for with its stored hash and
\* without comparing rows, and copied to the empty bucket the probe reaches
RECURSIVE Rehash(_, _, _, _)
Rehash(i, new_buckets, new_hash_array, n) ==
  IF i = num_buckets THEN [buckets |-> new_buckets, hash_array |-> new_hash_array]
  ELSE IF ~buckets[i].filled THEN Rehash(i + 1, new_buckets, new_hash_array, n)
  ELSE LET p == Probe(new_buckets, new_hash_array, n, TRUE, FALSE,
                      hash_array[i], "none")
       IN Rehash(i + 1,
                 [new_buckets EXCEPT ![p.bucket_idx] = buckets[i]],
                 [new_hash_array EXCEPT ![p.bucket_idx] = hash_array[i]], n)

\* CheckAndResize finds that the rows the caller is about to insert need a
\* larger table: ResizeBuckets(2 * num_buckets_)
ResizeBuckets ==
  /\ num_buckets < InitialBuckets * 2 ^ MaxResizes
  /\ LET n == 2 * num_buckets
         new == Rehash(0, [i \in 0..(n - 1) |-> EmptyBucket],
                       [i \in 0..(n - 1) |-> 0], n)
     IN /\ num_buckets' = n
        /\ buckets' = new.buckets
        /\ hash_array' = new.hash_array
  /\ ht_last' = [op |-> "ResizeBuckets", key |-> "none", ok |-> TRUE,
                 it |-> End]
  /\ UNCHANGED << ht_cfg, num_filled_buckets, node_remaining_current_page,
                  num_duplicate_nodes, ht_inserted, ht_calls,
                  cur_expr_values_hash >>

HtNext == Insert \/ ProbeRow \/ NextDuplicate \/ ResizeBuckets

-----------------------------------------------------------------------------
(* HashTable: the probe sequence *)

\* log2 of the largest table a probe walks through
MaxLogWalk == 4

\* no probe
WalkIdle ==
  [n |-> 0, base |-> 0, bucket_idx |-> 0, step |-> 0, visited |-> << >>]

WalkInit == probe_walk = WalkIdle

\* Probe, entry: bucket_idx = hash & (num_buckets - 1), step = 0, for a table
\* of n buckets, n a power of two, and any first bucket
WalkStart ==
  probe_walk \in
    UNION {{[n |-> 2 ^ e, base |-> b, bucket_idx |-> b, step |-> 0,
             visited |-> << b >>] : b \in 0..(2 ^ e - 1)} : e \in 1..MaxLogWalk}

\* Probe: one pass of the do-while loop at a filled bucket that does not
\* match: ++step, move to the next bucket, while (step < num_buckets)
ProbeStep ==
  /\ probe_walk.step + 1 < probe_walk.n
  /\ probe_walk' =
       [probe_walk EXCEPT
          !.step = @ + 1,
          !.bucket_idx = NextBucket(@, probe_walk.step + 1, probe_walk.n),
          !.visited = Append(@, NextBucket(probe_walk.bucket_idx,
                                           probe_walk.step + 1, probe_walk.n))]

WalkNext == ProbeStep

-----------------------------------------------------------------------------
(* HashTable: Probe on tables of any contents *)

\* what a bucket holds: nothing, one row with any key, or two rows of key k1
BucketShapes ==
  {[key |-> "none", rows |-> 0]} \cup
  {[key |-> k, rows |-> 1] : k \in Keys} \cup
  {[key |-> "k1", rows |-> 2]}

\* the bucket of that shape at index i: the rows of a chain in the order of
\* the chain, the row inserted last at its head
BucketOf(shape, i) ==
  IF shape.rows = 0 THEN EmptyBucket
  ELSE IF shape.rows = 1
    THEN [filled |-> TRUE, hasDuplicates |-> FALSE,
          row |-> Row(i + 1, shape.key), duplicates |-> << >>]
  ELSE [filled |-> TRUE, hasDuplicates |-> TRUE, row |-> NoRow,
        duplicates |->
          [j \in 1..shape.rows |->
             Row((shape.rows - j) * InitialBuckets + i + 1, shape.key)]]

\* the rows of a bucket
RowsIn(bucket) ==
  IF ~bucket.filled THEN {}
  ELSE IF bucket.hasDuplicates
    THEN {bucket.duplicates[j] : j \in 1..Len(bucket.duplicates)}
  ELSE {bucket.row}

\* a table of InitialBuckets buckets in which every bucket is of any shape,
\* a full table included, with the hash of each entry in hash_array_
AnyTableInit ==
  /\ ht_cfg \in [quadratic_probing : BOOLEAN, stores_nulls : {TRUE},
                 finds_nulls : BOOLEAN]
  /\ num_buckets = InitialBuckets
  /\ \E shape \in [0..(InitialBuckets - 1) -> BucketShapes] :
       buckets = [i \in 0..(InitialBuckets - 1) |-> BucketOf(shape[i], i)]
  /\ hash_array = [i \in 0..(InitialBuckets - 1) |->
                     IF buckets[i].filled THEN HashRow(GetRow(buckets[i]).key)
                     ELSE 0]
  /\ num_filled_buckets =
       Cardinality({i \in 0..(InitialBuckets - 1) : buckets[i].filled})
  /\ node_remaining_current_page = 0
  /\ num_duplicate_nodes =
       2 * Cardinality({i \in 0..(InitialBuckets - 1) :
                          buckets[i].hasDuplicates})
  /\ cur_expr_values_hash = 0
  /\ ht_inserted =
       UNION {RowsIn(buckets[i]) : i \in 0..(InitialBuckets - 1)}
  /\ ht_calls = 0
  /\ ht_last = [op |-> "none", key |-> "none", ok |-> FALSE, it |-> End]

\* the instantiation Probe<INCLUSIVE_EQUALITY, COMPARE_ROW>
ProbeOp(inclusive, compare_row) ==
  IF inclusive
    THEN IF compare_row THEN "Probe<true,true>" ELSE "Probe<true,false>"
  ELSE IF compare_row THEN "Probe<false,true>" ELSE "Probe<false,false>"

\* Probe<INCLUSIVE_EQUALITY, COMPARE_ROW>(buckets_, hash_array_,
\* num_buckets_, ht_ctx, hash, &found) with any expression values in the
\* cache and their hash, once on each table
ProbeAnyTable ==
  /\ ht_last.op = "none"
  /\ \E key \in Keys, inclusive \in BOOLEAN, compare_row \in BOOLEAN :
       LET p == Probe(buckets, hash_array, num_buckets, inclusive,
                      compare_row, HashRow(key), key)
       IN ht_last' = [op |-> ProbeOp(inclusive, compare_row), key |-> key,
                      ok |-> p.found,
                      it |-> [bucket_idx |-> p.bucket_idx, node |-> 0]]
  /\ UNCHANGED << ht_cfg, num_buckets, buckets, hash_array,
                  num_filled_buckets,
                  node_remaining_current_page, num_duplicate_nodes,
                  ht_inserted, ht_calls, cur_expr_values_hash >>

AnyTableNext == ProbeAnyTable

-----------------------------------------------------------------------------
(* HashTable: iterators over a table of any contents *)

\* a bucket holds at most this many rows
MaxChain == 3

\* no iterator, no entry matched
IterIdle ==
  /\ ht_matched = {}
  /\ has_matches = FALSE
  /\ iterator = End
  /\ iterator_of = "none"
  /\ iter_visited = << >>

\* the key of the rows of bucket i: equal rows share a bucket
KeyOfBucket(i) == << "k1", "k2", "k3", "k4", "NULL" >>[(i % 5) + 1]

\* a table of InitialBuckets buckets in which bucket i is empty, holds one
\* row or holds a chain of up to MaxChain rows
ChainsInit ==
  /\ ht_cfg = [quadratic_probing |-> TRUE, stores_nulls |-> TRUE,
               finds_nulls |-> TRUE]
  /\ num_buckets = InitialBuckets
  /\ \E rows \in [0..(InitialBuckets - 1) -> 0..MaxChain] :
       buckets = [i \in 0..(InitialBuckets - 1) |->
                    BucketOf([key |-> KeyOfBucket(i), rows |-> rows[i]], i)]
  /\ hash_array = [i \in 0..(InitialBuckets - 1) |->
                     IF buckets[i].filled THEN HashRow(GetRow(buckets[i]).key)
                     ELSE 0]
  /\ num_filled_buckets =
       Cardinality({i \in 0..(InitialBuckets - 1) : buckets[i].filled})
  /\ node_remaining_current_page = 0
  /\ num_duplicate_nodes = 0
  /\ cur_expr_values_hash = 0
  /\ ht_inserted =
       UNION {RowsIn(buckets[i]) : i \in 0..(InitialBuckets - 1)}
  /\ ht_calls = 0
  /\ ht_last = [op |-> "none", key |-> "none", ok |-> FALSE, it |-> End]

\* NextFilledBucket(&bucket_idx, &node): the first filled bucket after
\* bucket_idx with the head of its chain, or the end
RECURSIVE NextFilledBucket(_)
NextFilledBucket(bucket_idx) ==
  IF bucket_idx + 1 >= num_buckets THEN End
  ELSE IF buckets[bucket_idx + 1].filled
    THEN [bucket_idx |-> bucket_idx + 1,
          node |-> IF buckets[bucket_idx + 1].hasDuplicates THEN 1 ELSE 0]
  ELSE NextFilledBucket(bucket_idx + 1)

\* Iterator::IsMatched
IsMatched(it) == it \in ht_matched

\* mutant: Next leaves a chain after its first node
IteratorNextLeavesChain(it) == NextFilledBucket(it.bucket_idx)

\* Iterator::Next
IteratorNext(it) ==
  IF /\ buckets[it.bucket_idx].hasDuplicates
     /\ it.node < Len(buckets[it.bucket_idx].duplicates)
    THEN [it EXCEPT !.node = it.node + 1]
  ELSE NextFilledBucket(it.bucket_idx)

\* mutant: the rest of the chain is left at its first node, matched or not
RestOfChainFirst(it) ==
  IF it.node >= Len(buckets[it.bucket_idx].duplicates) THEN End
  ELSE [it EXCEPT !.node = it.node + 1]

\* NextUnmatched: "while (next_node != NULL)" over the rest of the chain of
\* the bucket, from the node after `it'; the end if every node is matched
RECURSIVE RestOfChain(_)
RestOfChain(it) ==
  IF it.node >= Len(buckets[it.bucket_idx].duplicates) THEN End
  ELSE LET node == [it EXCEPT !.node = it.node + 1]
       IN IF ~IsMatched(node) THEN node ELSE RestOfChain(node)

\* NextUnmatched: "while (node_->IsMatched() && next_node != NULL)" from the
\* head of a chain: the node the loop stops at
RECURSIVE SkipMatched(_)
SkipMatched(it) ==
  IF IsMatched(it) /\ it.node < Len(buckets[it.bucket_idx].duplicates)
    THEN SkipMatched([it EXCEPT !.node = it.node + 1])
  ELSE it

\* NextUnmatched: "while (bucket_idx_ != Iterator::BUCKET_NOT_FOUND)" from
\* the filled bucket `it'
RECURSIVE FilledBuckets(_)
FilledBuckets(it) ==
  IF it = End THEN End
  ELSE IF ~buckets[it.bucket_idx].hasDuplicates
    THEN IF ~IsMatched(it) THEN it
         ELSE FilledBuckets(NextFilledBucket(it.bucket_idx))
  ELSE LET node == SkipMatched(it)
       IN IF ~IsMatched(node) THEN node
          ELSE FilledBuckets(NextFilledBucket(it.bucket_idx))

\* Iterator::NextUnmatched
IteratorNextUnmatched(it) ==
  LET in_chain == IF buckets[it.bucket_idx].hasDuplicates
                    THEN RestOfChain(it) ELSE End
  IN IF in_chain # End THEN in_chain
     ELSE FilledBuckets(NextFilledBucket(it.bucket_idx))

\* the iterator has moved to `it'
MovedTo(it) ==
  /\ iterator' = it
  /\ iter_visited' = IF it = End THEN iter_visited
                     ELSE Append(iter_visited, it)

\* Begin
Begin ==
  /\ iterator_of = "none"
  /\ iterator_of' = "Begin"
  /\ iter_visited = << >>
  /\ MovedTo(NextFilledBucket(BUCKET_NOT_FOUND))
  /\ UNCHANGED << htVars, ht_matched, has_matches >>

\* Iterator::Next on the iterator of Begin
Next_ ==
  /\ iterator_of = "Begin" /\ iterator # End
  /\ MovedTo(IteratorNext(iterator))
  /\ UNCHANGED << htVars, ht_matched, has_matches, iterator_of >>

\* Iterator::SetMatched on the iterator of Begin
SetMatched ==
  /\ iterator_of = "Begin" /\ iterator # End
  /\ ~IsMatched(iterator)
  /\ ht_matched' = ht_matched \cup {iterator}
  /\ has_matches' = TRUE
  /\ UNCHANGED << htVars, iterator, iterator_of, iter_visited >>

\* FirstUnmatched, once the iterator of Begin is at the end. With no filled
\* bucket NextFilledBucket leaves bucket_idx at BUCKET_NOT_FOUND and node at
\* NULL, and the flags are read from buckets_[-1]: the call returns the end
\* iterator, or the process dies on the read or on node->IsMatched().
FirstUnmatched ==
  /\ iterator_of = "Begin" /\ iterator = End
  /\ LET it == NextFilledBucket(BUCKET_NOT_FOUND)
     IN IF it = End
          THEN /\ iterator_of' \in {"FirstUnmatched", "crashed"}
               /\ iterator' = End
               /\ iter_visited' = << >>
        ELSE /\ iterator_of' = "FirstUnmatched"
             /\ iterator' = IF IsMatched(it) THEN IteratorNextUnmatched(it)
                            ELSE it
             /\ iter_visited' = IF iterator' = End THEN << >>
                                ELSE << iterator' >>
  /\ UNCHANGED << htVars, ht_matched, has_matches >>

\* Iterator::NextUnmatched on the iterator of FirstUnmatched
NextUnmatched ==
  /\ iterator_of = "FirstUnmatched" /\ iterator # End
  /\ MovedTo(IteratorNextUnmatched(iterator))
  /\ UNCHANGED << htVars, ht_matched, has_matches, iterator_of >>

IterNext == Begin \/ Next_ \/ SetMatched \/ FirstUnmatched \/ NextUnmatched

-----------------------------------------------------------------------------
(* ClusterMembershipMgr: locks and callbacks *)

\* the threads: "U" calls UpdateMembership (the statestore subscriber), "B"
\* calls BlacklistExecutor (a coordinator), "G" calls GetSnapshot and "S"
\* installs the callbacks
CmmThreads == {"U", "B", "G", "S"}

CallbackFns ==
  {"local_be_desc_fn", "update_local_server_fn", "update_frontend_fn"}

LockInit ==
  /\ update_membership_lock = "free"
  /\ callback_fn_lock = "free"
  /\ current_membership_lock = "free"
  /\ thread_at = [t \in CmmThreads |-> "idle"]
  /\ callback_running = "none"
  /\ fns_set = {}
  /\ setting = "none"

\* a thread calls a member function
CallMade(t, entry) ==
  /\ thread_at[t] = "idle"
  /\ thread_at' = [thread_at EXCEPT ![t] = entry]

Goes(t, from, to) ==
  /\ thread_at[t] = from
  /\ thread_at' = [thread_at EXCEPT ![t] = to]

\* SetLocalBeDescFn, SetUpdateLocalServerFn, SetUpdateFrontendFn: each is
\* called once
SetFnCall ==
  /\ \E fn \in CallbackFns \ fns_set :
       /\ CallMade("S", "s_lock")
       /\ setting' = fn
  /\ UNCHANGED << update_membership_lock, callback_fn_lock,
                  current_membership_lock, callback_running, fns_set >>

SetFnLock ==
  /\ Goes("S", "s_lock", "s_set")
  /\ callback_fn_lock = "free"
  /\ callback_fn_lock' = "S"
  /\ UNCHANGED << update_membership_lock, current_membership_lock,
                  callback_running, fns_set, setting >>

SetFnReturn ==
  /\ Goes("S", "s_set", "idle")
  /\ fns_set' = fns_set \cup {setting}
  /\ setting' = "none"
  /\ callback_fn_lock' = "free"
  /\ UNCHANGED << update_membership_lock, current_membership_lock,
                  callback_running >>

\* GetSnapshot
GetSnapshotCall ==
  /\ CallMade("G", "g_lock")
  /\ UNCHANGED << update_membership_lock, callback_fn_lock,
                  current_membership_lock, callback_running, fns_set, setting >>

GetSnapshotLock ==
  /\ Goes("G", "g_lock", "g_copy")
  /\ current_membership_lock = "free"
  /\ current_membership_lock' = "G"
  /\ UNCHANGED << update_membership_lock, callback_fn_lock, callback_running,
                  fns_set, setting >>

GetSnapshotReturn ==
  /\ Goes("G", "g_copy", "idle")
  /\ current_membership_lock' = "free"
  /\ UNCHANGED << update_membership_lock, callback_fn_lock, callback_running,
                  fns_set, setting >>

\* a writer, UpdateMembership or BlacklistExecutor, is called
WriterCall(t) ==
  /\ CallMade(t, "w_lock")
  /\ UNCHANGED << update_membership_lock, callback_fn_lock,
                  current_membership_lock, callback_running, fns_set, setting >>

\* lock_guard<mutex> l(update_membership_lock_)
WriterLock(t) ==
  /\ Goes(t, "w_lock", IF t = "U" THEN "u_topic" ELSE "b_exists")
  /\ update_membership_lock = "free"
  /\ update_membership_lock' = t
  /\ UNCHANGED << callback_fn_lock, current_membership_lock, callback_running,
                  fns_set, setting >>

\* a return of the writer releases update_membership_lock_
WriterReturns(t, from) ==
  /\ Goes(t, from, "idle")
  /\ update_membership_lock' = "free"
  /\ UNCHANGED << callback_fn_lock, current_membership_lock, callback_running,
                  fns_set, setting >>

WriterGoes(t, from, to) ==
  /\ Goes(t, from, to)
  /\ UNCHANGED << update_membership_lock, callback_fn_lock,
                  current_membership_lock, callback_running, fns_set, setting >>

\* lock_guard<mutex> l(callback_fn_lock_) in GetLocalBackendDescriptor,
\* NotifyLocalServerForDeletedBackend and UpdateFrontendExecutorMembership
CallbackLock(from, to) ==
  /\ Goes("U", from, to)
  /\ callback_fn_lock = "free"
  /\ callback_fn_lock' = "U"
  /\ UNCHANGED << update_membership_lock, current_membership_lock,
                  callback_running, fns_set, setting >>

\* the function is invoked if it is installed
CallbackInvoke(fn, from, to) ==
  /\ Goes("U", from, to)
  /\ callback_running' = IF fn \in fns_set THEN fn ELSE "none"
  /\ UNCHANGED << update_membership_lock, callback_fn_lock,
                  current_membership_lock, fns_set, setting >>

\* mutant: callback_fn_lock_ is kept after the function has returned
CallbackReturnKeepsLock(from, to) ==
  /\ Goes("U", from, to)
  /\ callback_running' = "none"
  /\ callback_fn_lock' = callback_fn_lock
  /\ UNCHANGED << update_membership_lock, current_membership_lock, fns_set,
                  setting >>

\* the function has returned; the lock_guard releases callback_fn_lock_
CallbackReturn(from, to) ==
  /\ Goes("U", from, to)
  /\ callback_running' = "none"
  /\ callback_fn_lock' = "free"
  /\ UNCHANGED << update_membership_lock, current_membership_lock, fns_set,
                  setting >>

\* SetState: lock_guard<mutex> l(current_membership_lock_)
SetStateLock(t) ==
  /\ Goes(t, "w_setstate", "w_swap")
  /\ current_membership_lock = "free"
  /\ current_membership_lock' = t
  /\ UNCHANGED << update_membership_lock, callback_fn_lock, callback_running,
                  fns_set, setting >>

\* SetState: current_membership_ = new_state, then the lock is released
SetStateReturn(t) ==
  /\ Goes(t, "w_swap", "w_return")
  /\ current_membership_lock' = "free"
  /\ UNCHANGED << update_membership_lock, callback_fn_lock, callback_running,
                  fns_set, setting >>

\* UpdateMembership: the membership topic is looked up
UpdateTopic ==
  \/ WriterReturns("U", "u_topic")
  \/ WriterGoes("U", "u_topic", "u_getdesc")

\* UpdateMembership: GetLocalBackendDescriptor()
UpdateGetLocalBackendDescriptor ==
  \/ CallbackLock("u_getdesc", "u_desc_fn")
  \/ CallbackInvoke("local_be_desc_fn", "u_desc_fn", "u_desc_ret")
  \/ CallbackReturn("u_desc_ret", "u_decide")

\* UpdateMembership: nothing to do and return; or the new state is built and
\* kept in recovering_membership_; or it is built and published, with
\* update_local_server true or false
UpdateDecide ==
  \/ WriterReturns("U", "u_decide")
  \/ WriterGoes("U", "u_decide", "u_notify")
  \/ WriterGoes("U", "u_decide", "u_frontend")

\* UpdateMembership: NotifyLocalServerForDeletedBackend
UpdateNotifyLocalServer ==
  \/ CallbackLock("u_notify", "u_notify_fn")
  \/ CallbackInvoke("update_local_server_fn", "u_notify_fn", "u_notify_ret")
  \/ CallbackReturn("u_notify_ret", "u_frontend")

\* UpdateMembership: UpdateFrontendExecutorMembership
UpdateNotifyFrontend ==
  \/ CallbackLock("u_frontend", "u_frontend_fn")
  \/ CallbackInvoke("update_frontend_fn", "u_frontend_fn", "u_frontend_ret")
  \/ CallbackReturn("u_frontend_ret", "w_setstate")

\* BlacklistExecutor: the local backend, an executor not in its groups or a
\* recovering membership and return; or SetState
BlacklistDecide ==
  \/ WriterReturns("B", "b_exists")
  \/ WriterGoes("B", "b_exists", "w_setstate")

UpdateThreadStep ==
  \/ WriterCall("U") \/ WriterLock("U") \/ UpdateTopic
  \/ UpdateGetLocalBackendDescriptor \/ UpdateDecide
  \/ UpdateNotifyLocalServer \/ UpdateNotifyFrontend
  \/ SetStateLock("U") \/ SetStateReturn("U") \/ WriterReturns("U", "w_return")

BlacklistThreadStep ==
  \/ WriterCall("B") \/ WriterLock("B") \/ BlacklistDecide
  \/ SetStateLock("B") \/ SetStateReturn("B") \/ WriterReturns("B", "w_return")

GetSnapshotStep == GetSnapshotCall \/ GetSnapshotLock \/ GetSnapshotReturn

SetFnStep == SetFnCall \/ SetFnLock \/ SetFnReturn

LockNext ==
  UpdateThreadStep \/ BlacklistThreadStep \/ GetSnapshotStep \/ SetFnStep

-----------------------------------------------------------------------------
(* Specifications *)

\* the table of the runs of the other components
DefaultTable ==
  ht_cfg = [quadratic_probing |-> TRUE, stores_nulls |-> TRUE,
            finds_nulls |-> FALSE]

SinkSpecInit ==
  focus = "sink" /\ SinkInit /\ CmmInit /\ HtInit /\ DefaultTable /\ WalkInit
  /\ LockInit /\ IterIdle

AnyOrderSpecInit ==
  focus = "anyorder" /\ SinkInit /\ CmmInit /\ HtInit /\ DefaultTable /\ WalkInit
  /\ LockInit /\ IterIdle

CmmSpecInit ==
  focus = "cmm" /\ SinkInit /\ CmmInit /\ HtInit /\ DefaultTable /\ WalkInit
  /\ LockInit /\ IterIdle

DeltaSpecInit ==
  focus = "delta" /\ SinkInit /\ CmmInit /\ HtInit /\ DefaultTable /\ WalkInit
  /\ LockInit /\ IterIdle

MixedSpecInit ==
  focus = "mixed" /\ SinkInit /\ CmmInit /\ HtInit /\ DefaultTable /\ WalkInit
  /\ LockInit /\ IterIdle

HappySpecInit ==
  focus = "happy" /\ SinkInit /\ CmmInit /\ HtInit /\ DefaultTable /\ WalkInit
  /\ LockInit /\ IterIdle

HtSpecInit ==
  focus = "ht" /\ SinkInit /\ CmmInit /\ HtInit /\ WalkInit /\ LockInit /\ IterIdle

AnyTableSpecInit ==
  focus = "anytable" /\ SinkInit /\ CmmInit /\ AnyTableInit /\ WalkInit
  /\ LockInit /\ IterIdle

ChainsSpecInit ==
  focus = "chains" /\ SinkInit /\ CmmInit /\ ChainsInit /\ WalkInit
  /\ LockInit /\ IterIdle

WalkSpecInit ==
  focus = "walk" /\ SinkInit /\ CmmInit /\ HtInit /\ WalkStart /\ LockInit /\ IterIdle

LockSpecInit ==
  focus = "locks" /\ SinkInit /\ CmmInit /\ HtInit /\ DefaultTable /\ WalkInit
  /\ LockInit /\ IterIdle

SinkSpec ==
  /\ SinkSpecInit
  /\ [][SinkNext /\ UNCHANGED << focus, cmmVars, htVars, walkVars, lockVars, iterVars >>]_vars

AnyOrderSpec ==
  /\ AnyOrderSpecInit
  /\ [][AnyOrderNext /\ UNCHANGED << focus, cmmVars, htVars, walkVars, lockVars, iterVars >>]_vars

\* Every thread keeps running: a thread that can take a step again and again
\* eventually takes one (a thread trying to take lock_ gets it if lock_ is
\* free again and again). A spurious wake-up and the decision to cancel are
\* never forced.
SinkFairSpec ==
  /\ SinkSpec
  /\ SF_vars(ProducerStep /\ UNCHANGED << focus, cmmVars, htVars, walkVars, lockVars, iterVars >>)
  /\ SF_vars(ConsumerStep /\ UNCHANGED << focus, cmmVars, htVars, walkVars, lockVars, iterVars >>)
  /\ WF_vars(CancelStep /\ UNCHANGED << focus, cmmVars, htVars, walkVars, lockVars, iterVars >>)

\* the scenario of one batch, with every thread kept running
HappySpec ==
  /\ HappySpecInit
  /\ [][HappyNext /\ UNCHANGED << focus, cmmVars, htVars, walkVars, lockVars, iterVars >>]_vars
  /\ SF_vars(HappyProducerStep /\ UNCHANGED << focus, cmmVars, htVars, walkVars, lockVars, iterVars >>)
  /\ SF_vars(HappyConsumerStep /\ UNCHANGED << focus, cmmVars, htVars, walkVars, lockVars, iterVars >>)

CmmSpec ==
  /\ CmmSpecInit
  /\ [][CmmNext /\ UNCHANGED << focus, sinkVars, htVars, walkVars, lockVars, iterVars >>]_vars

DeltaSpec ==
  /\ DeltaSpecInit
  /\ [][DeltaNext /\ UNCHANGED << focus, sinkVars, htVars, walkVars, lockVars, iterVars >>]_vars

MixedSpec ==
  /\ MixedSpecInit
  /\ [][MixedNext /\ UNCHANGED << focus, sinkVars, htVars, walkVars, lockVars, iterVars >>]_vars

HtSpec ==
  /\ HtSpecInit
  /\ [][HtNext /\ UNCHANGED << focus, sinkVars, cmmVars, walkVars, lockVars, iterVars >>]_vars

\* probes of tables of any contents
AnyTableSpec ==
  /\ AnyTableSpecInit
  /\ [][AnyTableNext /\ UNCHANGED << focus, sinkVars, cmmVars, walkVars, lockVars, iterVars >>]_vars

\* iterators over tables of any contents
ChainsSpec ==
  /\ ChainsSpecInit
  /\ [][IterNext /\ UNCHANGED << focus, sinkVars, cmmVars, walkVars, lockVars >>]_vars

\* probes of tables of every size, from every first bucket
WalkSpec ==
  /\ WalkSpecInit
  /\ [][WalkNext /\ UNCHANGED << focus, sinkVars, cmmVars, htVars, lockVars, iterVars >>]_vars

\* the locks of the manager, with every thread kept running: a thread waiting
\* for a lock gets it if the lock is free again and again
LockSpec ==
  /\ LockSpecInit
  /\ [][LockNext /\ UNCHANGED << focus, sinkVars, cmmVars, htVars, walkVars, iterVars >>]_vars
  /\ SF_vars(UpdateThreadStep
               /\ UNCHANGED << focus, sinkVars, cmmVars, htVars, walkVars, iterVars >>)
  /\ SF_vars(BlacklistThreadStep
               /\ UNCHANGED << focus, sinkVars, cmmVars, htVars, walkVars, iterVars >>)
  /\ SF_vars(GetSnapshotLock
               /\ UNCHANGED << focus, sinkVars, cmmVars, htVars, walkVars, iterVars >>)
  /\ WF_vars(GetSnapshotReturn
               /\ UNCHANGED << focus, sinkVars, cmmVars, htVars, walkVars, iterVars >>)
  /\ SF_vars((SetFnLock \/ SetFnReturn)
               /\ UNCHANGED << focus, sinkVars, cmmVars, htVars, walkVars, iterVars >>)

Init ==
  /\ focus \in {"sink", "anyorder", "happy", "cmm", "delta", "mixed", "ht",
                "anytable", "chains", "walk",
                "locks"}
  /\ SinkInit /\ CmmInit /\ LockInit /\ IterIdle
  /\ IF focus = "anytable" THEN AnyTableInit
     ELSE IF focus = "chains" THEN ChainsInit
     ELSE HtInit
  /\ IF focus = "walk" THEN WalkStart ELSE WalkInit

Next ==
  \/ focus = "sink" /\ SinkNext /\ UNCHANGED << focus, cmmVars, htVars, walkVars, lockVars, iterVars >>
  \/ focus = "anyorder" /\ AnyOrderNext
       /\ UNCHANGED << focus, cmmVars, htVars, walkVars, lockVars, iterVars >>
  \/ focus = "happy" /\ HappyNext /\ UNCHANGED << focus, cmmVars, htVars, walkVars, lockVars, iterVars >>
  \/ focus = "cmm" /\ CmmNext /\ UNCHANGED << focus, sinkVars, htVars, walkVars, lockVars, iterVars >>
  \/ focus = "delta" /\ DeltaNext /\ UNCHANGED << focus, sinkVars, htVars, walkVars, lockVars, iterVars >>
  \/ focus = "mixed" /\ MixedNext
       /\ UNCHANGED << focus, sinkVars, htVars, walkVars, lockVars, iterVars >>
  \/ focus = "ht" /\ HtNext /\ UNCHANGED << focus, sinkVars, cmmVars, walkVars, lockVars, iterVars >>
  \/ focus = "anytable" /\ AnyTableNext
       /\ UNCHANGED << focus, sinkVars, cmmVars, walkVars, lockVars, iterVars >>
  \/ focus = "chains" /\ IterNext
       /\ UNCHANGED << focus, sinkVars, cmmVars, walkVars, lockVars >>
  \/ focus = "walk" /\ WalkNext /\ UNCHANGED << focus, sinkVars, cmmVars, htVars, lockVars, iterVars >>
  \/ focus = "locks" /\ LockNext
       /\ UNCHANGED << focus, sinkVars, cmmVars, htVars, walkVars, iterVars >>

Spec == Init /\ [][Next]_vars

-----------------------------------------------------------------------------
(* Result sink: properties *)

\* the rows 1..n of the stream of rows sent, in order
RowsInOrder(n) == [i \in 1..n |-> i]

\* what has been added to result sets is a prefix of the rows sent, in
\* batch-scan order, each row once
DeliveredInOrder ==
  /\ Len(delivered) <= rows_total
  /\ delivered = RowsInOrder(Len(delivered))

\* when a GetNext has reported eos, every row of every batch has been added
DeliveredAllAtEos == get_eos => delivered = RowsInOrder(rows_total)

\* C1: with one producer and one consumer, the rows added to the consumer's
\* result sets are the rows of B1..Bk in batch-scan order, each exactly once,
\* complete once eos is reported; and unless the query is cancelled or the
\* producer closes without FlushFinal, some GetNext eventually reports eos.
C1_RowsInOrderThenEos ==
  /\ [](DeliveredInOrder /\ DeliveredAllAtEos)
  /\ <>(get_eos \/ is_cancelled \/ sender_state = "CLOSED_NOT_EOS")

C1_Witness ==
  /\ get_eos /\ ~is_cancelled
  /\ batches_sent = 2 /\ rows_total >= 3
  /\ delivered = RowsInOrder(rows_total)

C6_CloseBeforeFlush ==
  /\ [][(pcP # "closed" /\ pcP' = "closed" /\ sender_state = "ROWS_PENDING")
          => sender_state' = "CLOSED_NOT_EOS"]_vars
  /\ [](sender_state = "CLOSED_NOT_EOS" => ~get_eos)
  /\ ((sender_state = "CLOSED_NOT_EOS" /\ pcC \notin {"idle", "done"})
        ~> (pcC \in {"idle", "done"} /\ ~get_eos))

C6_Witness ==
  /\ sender_state = "CLOSED_NOT_EOS" /\ pcC = "g_woken" /\ results = "cur"
  /\ ~is_cancelled /\ ~get_eos

\* C7: when Cancel is called (the flag being set) while Send is blocked on
\* sender_cv_, Send returns CANCELLED; when it is called while GetNext is
\* blocked on consumer_cv_, GetNext returns CANCELLED.
C7_CancelWakesBlocked ==
  /\ (cancel_found = "send_blocked") ~> (send_status = "CANCELLED" /\ pcP \in {"failed", "closed"})
  /\ (cancel_found = "get_blocked") ~> (get_status = "CANCELLED" /\ pcC = "done")

C7_Witness ==
  /\ cancel_found = "get_blocked"
  /\ get_status = "CANCELLED" /\ pcC = "done"
  /\ send_status = "CANCELLED"

\* The window C7 leaves out: Cancel does not take lock_, so its broadcast can
\* fall between Send's test of the wait condition and its wait.
SendReturnsOnceCancelled ==
  (is_cancelled /\ pcP = "s_prewait") ~> (send_status = "CANCELLED")

-----------------------------------------------------------------------------
(* Cluster membership: properties *)

\* the snapshots the manager holds: the published one and the recovering one
Snapshots ==
  {current_membership.snap} \cup
  (IF recovering_membership.obj # "null" THEN {recovering_membership.snap}
   ELSE {})

\* the snapshot the latest writer call built or would start from
BaseSnapshot ==
  IF recovering_membership.obj # "null" THEN recovering_membership.snap
  ELSE current_membership.snap

\* the step is a writer call that publishes a snapshot
Publishes ==
  num_calls' = num_calls + 1 /\ last_call'.outcome = "published"

\* C2: in every snapshot built by UpdateMembership and BlacklistExecutor calls,
\* published or recovering, every member of an executor group is in
\* current_backends, is an executor, is not quiescing, is not blacklisted, and
\* its descriptor in the group agrees with the one in current_backends on
\* is_executor and is_quiescing.
C2_GroupMembersConsistent ==
  \A s \in Snapshots : \A g \in Groups : \A a \in Ids :
    LET member == s.executor_groups[g][a]
        backend == s.current_backends[a]
    IN member # NoDesc =>
         /\ backend # NoDesc
         /\ backend.is_executor
         /\ ~backend.is_quiescing
         /\ s.executor_blacklist[a].state # "BLACKLISTED"
         /\ member.is_executor = backend.is_executor
         /\ member.is_quiescing = backend.is_quiescing

\* C4: each publication of current_membership_ carries a version strictly
\* greater than the one it replaces. (Not true of the code: BlacklistExecutor
\* publishes a copy with the same version, and a full transmit starts again
\* from an empty snapshot.)
C4_VersionStrictlyMonotonic ==
  [][Publishes =>
       current_membership'.snap.version > current_membership.snap.version]_vars

\* C8: no writer call modifies the published Snapshot object: the object a
\* call writes to is a new one or the private recovering one, the recovering
\* pointer never refers to the published object, and what a reader sees
\* through current_membership_ changes only when SetState installs another
\* object.
C8_PublishedNeverMutated ==
  /\ [](last_call.written # "published")
  /\ [](recovering_membership.obj # "published")
  /\ [][current_membership'.snap # current_membership.snap =>
          Publishes /\ last_call'.written \in {"new", "private"}]_vars

\* a call has modified the recovering snapshot in place and the published
\* snapshot, which differs from it, is still the one published before
C8_Witness ==
  /\ last_call.op = "BlacklistExecutor"
  /\ last_call.written = "private"
  /\ recovering_membership.obj = "private"
  /\ current_membership.snap.version >= 1
  /\ recovering_membership.snap # current_membership.snap

\* x is in no executor group, not on the blacklist and not in current_backends
\* of the snapshot the latest call built
Gone(x) ==
  /\ \A g \in Groups : BaseSnapshot.executor_groups[g][x] = NoDesc
  /\ BaseSnapshot.executor_blacklist[x] = NotListed
  /\ BaseSnapshot.current_backends[x] = NoDesc

\* the step is an UpdateMembership whose delta deletes x, and the writer call
\* before it was a BlacklistExecutor(x) that blacklisted x
DeletesBlacklisted(x) ==
  /\ last_call.op = "BlacklistExecutor" /\ last_call.x = x
  /\ num_calls' = num_calls + 1
  /\ last_call'.op = "UpdateMembership" /\ last_call'.x = x
  /\ last_update'.update.is_delta

\* C9 as stated: after BlacklistExecutor(x) and an update that deletes x, x is
\* gone from groups, blacklist and current_backends and the local-server
\* callback has been invoked. (Not true in the post-recovery grace period.)
C9_BlacklistThenDeleteNotifies ==
  [][\A x \in Ids :
       DeletesBlacklisted(x) => Gone(x)' /\ last_call'.local_server]_vars

\* C9, amended: after BlacklistExecutor(x) and an update that deletes x, x is
\* gone from groups, blacklist and current_backends of the snapshot built; the
\* local-server callback is invoked unless the subscriber is in its
\* post-recovery grace period, in which case the snapshot is kept as the
\* recovering one and no callback is invoked.
C9_BlacklistThenDelete ==
  [][\A x \in Ids :
       DeletesBlacklisted(x) =>
         /\ Gone(x)'
         /\ last_call'.local_server = ~ss_recovering
         /\ last_call'.outcome =
              (IF ss_recovering THEN "kept_recovering" ELSE "published")]_vars

\* {A, B} in g1, A blacklisted and then deleted by an update: g1 = {B}, the
\* blacklist is empty and the local server has been notified
C9_Witness ==
  /\ last_call.op = "UpdateMembership" /\ last_call.x = "A"
  /\ last_update.update.is_delta
  /\ last_call.local_server
  /\ Gone("A")
  /\ current_membership.snap.executor_groups["g1"]["B"] # NoDesc
  /\ current_membership.snap.executor_blacklist = EmptyBlacklist

\* what C10 compares
Content(s) ==
  << s.current_backends, s.executor_groups, s.executor_blacklist >>

\* C10: an UpdateMembership call with the delta of the call before it (no
\* blacklist timeout elapsing in between) leaves current_backends,
\* executor_groups and executor_blacklist as the first application left them.
C10_SameDeltaTwice ==
  [][last_update'.times = 2 /\ last_update'.update.is_delta =>
       Content(BaseSnapshot)' = Content(BaseSnapshot)]_vars

\* a delta that adds executor A has been applied twice and has built two
\* snapshots
C10_Witness ==
  /\ last_update.times = 2
  /\ last_update.update.is_delta
  /\ last_update.update.topic_entries["A"].kind = "desc"
  /\ last_call.outcome = "published"
  /\ BaseSnapshot.version >= 2
  /\ BaseSnapshot.executor_groups["g1"]["A"] # NoDesc

-----------------------------------------------------------------------------
(* HashTable: properties *)

\* the rows of the bucket the iterator stands on
RowsOfBucket(it) ==
  IF buckets[it.bucket_idx].hasDuplicates
    THEN {buckets[it.bucket_idx].duplicates[i] :
            i \in 1..Len(buckets[it.bucket_idx].duplicates)}
  ELSE {buckets[it.bucket_idx].row}

\* FindProbeRow with the expression values and hash of `row' returns an
\* iterator that is not End() and stands on a row with the values of `row',
\* in the bucket that holds `row'
FoundAgain(row) ==
  LET it == FindProbeRow(row.key)
  IN /\ it # End
     /\ IteratorGetRow(it).key = row.key
     /\ row \in RowsOfBucket(it)

\* C3 as stated: every row for which Insert returned true is found by
\* FindProbeRow evaluated with the same expression values and hash, and the
\* row of the iterator compares equal to the inserted row.
C3_InsertThenFindAnyRow == \A row \in ht_inserted : FoundAgain(row)

\* C3, amended: every row for which Insert returned true and whose expression
\* values hold no NULL, or any such row if the equality of the context finds
\* nulls, is found by FindProbeRow evaluated with the same expression values
\* and hash, and the row of the iterator compares equal to the inserted row.
C3_InsertThenFind ==
  \A row \in ht_inserted :
    row.key # "NULL" \/ ht_cfg.finds_nulls => FoundAgain(row)

\* FindProbeRow has found a row that Insert had to place two probe steps
\* away from the bucket of its hash, in a table that also holds a NULL row
C3_Witness ==
  /\ ht_last.op = "FindProbeRow"
  /\ ht_last.ok
  /\ \E row \in ht_inserted :
       /\ row.key = ht_last.key
       /\ row \in RowsOfBucket(ht_last.it)
  /\ ht_last.it.bucket_idx \notin
       {Mask(HashRow(ht_last.key), num_buckets),
        Mask(HashRow(ht_last.key) + 1, num_buckets)}
  /\ \E row \in ht_inserted : row.key = "NULL"

\* the filled buckets of the table
Filled == {i \in 0..(num_buckets - 1) : buckets[i].filled}

\* the step is a resize that doubles the table
Resizes == num_buckets' = 2 * num_buckets

\* a probe of the table for the build row with this hash and these
\* expression values, as FindBuildRowBucket makes it
ProbeBuildRow(hash, key) ==
  Probe(buckets, hash_array, num_buckets, TRUE, TRUE, hash, key)

\* C11: a resize from N to 2N buckets keeps every entry: each bucket filled
\* before the resize is, with its rows and its stored hash unchanged, in
\* exactly one bucket of the new table, the one a probe of the new table with
\* the stored hash and the expression values of the entry reaches; the new
\* table holds nothing else.
C11_ResizeKeepsEntries ==
  [][Resizes =>
       /\ \A i \in Filled :
            \E h \in {hash_array[i]}, b \in {buckets[i]} :
              /\ ProbeBuildRow(h, GetRow(b).key)'.found
              /\ buckets'[ProbeBuildRow(h, GetRow(b).key)'.bucket_idx] = b
              /\ hash_array'[ProbeBuildRow(h, GetRow(b).key)'.bucket_idx] = h
              /\ Cardinality({j \in Filled' : buckets'[j] = b}) = 1
       /\ Cardinality(Filled') = Cardinality(Filled)
       /\ num_filled_buckets' = num_filled_buckets]_vars

\* A table filled to its fill factor has been resized: an entry has moved to
\* the new half of the array, and two entries whose hashes collide in the
\* new table are in different buckets
C11_Witness ==
  /\ ht_last.op = "ResizeBuckets"
  /\ num_buckets = 2 * InitialBuckets
  /\ Cardinality(Filled) = (InitialBuckets * 3) \div 4
  /\ \E i \in Filled : i >= InitialBuckets
  /\ \E i, j \in Filled :
       /\ i # j
       /\ Mask(hash_array[i], num_buckets) = Mask(hash_array[j], num_buckets)

\* a table of n buckets, all of them filled except bucket `empty'
AllFilledBut(empty, n) ==
  [i \in 0..(n - 1) |->
     IF i = empty THEN EmptyBucket
     ELSE [filled |-> TRUE, hasDuplicates |-> FALSE, row |-> Row(i + 1, "k1"),
           duplicates |-> << >>]]

\* C12: with quadratic probing, in a table of N buckets, N a power of two,
\* the k-th bucket a probe visits from any first bucket `base' is
\* (base + k(k+1)/2) mod N, no bucket is visited twice, and the N buckets
\* visited before the loop ends are all the buckets of the table: Probe
\* reaches the only empty bucket of the table wherever it is.
C12_QuadraticPermutation ==
  ht_cfg.quadratic_probing /\ probe_walk.n > 0 =>
    LET w == probe_walk
    IN /\ Len(w.visited) = w.step + 1
       /\ w.visited[w.step + 1] = w.bucket_idx
       /\ \A k \in 0..w.step :
            w.visited[k + 1] = (w.base + (k * (k + 1)) \div 2) % w.n
       /\ \A i, j \in 1..(w.step + 1) : i # j => w.visited[i] # w.visited[j]
       /\ w.step + 1 = w.n =>
            /\ {w.visited[i] : i \in 1..w.n} = 0..(w.n - 1)
            /\ Probe(AllFilledBut(w.bucket_idx, w.n), [i \in 0..(w.n - 1) |-> 0],
                     w.n, TRUE, FALSE, w.base + w.n, "none")
                 = [bucket_idx |-> w.bucket_idx, found |-> FALSE]

\* a quadratic probe of a table of 8 buckets from bucket 5 has visited all
\* the buckets of the table
C12_Witness ==
  /\ ht_cfg.quadratic_probing
  /\ probe_walk.n = 8
  /\ probe_walk.base = 5
  /\ probe_walk.step + 1 = probe_walk.n

\* the rows inserted with these expression values
InsertedWith(key) == {row \in ht_inserted : row.key = key}

\* the buckets that hold a row with these expression values
BucketsOf(key) == {i \in Filled : GetRow(buckets[i]).key = key}

\* the rows an iterator yields through NextDuplicate until it is at end
RECURSIVE RowsThroughNextDuplicate(_)
RowsThroughNextDuplicate(it) ==
  IF it = End THEN << >>
  ELSE << IteratorGetRow(it) >>
         \o RowsThroughNextDuplicate(IteratorNextDuplicate(it))

\* the k >= 2 rows inserted with `key' are in one bucket that has duplicates,
\* in a chain of k nodes with the latest row first
ChainOf(key) ==
  /\ Cardinality(BucketsOf(key)) = 1
  /\ \A b \in BucketsOf(key) :
       /\ buckets[b].hasDuplicates
       /\ Len(buckets[b].duplicates) = Cardinality(InsertedWith(key))
       /\ {buckets[b].duplicates[i] : i \in 1..Len(buckets[b].duplicates)}
            = InsertedWith(key)
       /\ \A i, j \in 1..Len(buckets[b].duplicates) :
            i < j => buckets[b].duplicates[i].id > buckets[b].duplicates[j].id

\* FindProbeRow for `key' returns an iterator that yields the rows of the
\* chain, head first, through NextDuplicate and is then at end
ChainWalked(key) ==
  /\ FindProbeRow(key) # End
  /\ RowsThroughNextDuplicate(FindProbeRow(key))
       = buckets[FindProbeRow(key).bucket_idx].duplicates
  /\ Len(RowsThroughNextDuplicate(FindProbeRow(key)))
       = Cardinality(InsertedWith(key))

\* every filled bucket is the bucket of the rows of one key, and the nodes
\* allocated are the nodes of the chains
OneBucketPerKey ==
  /\ num_filled_buckets = Cardinality({row.key : row \in ht_inserted})
  /\ num_filled_buckets = Cardinality(Filled)
  /\ \A i \in Filled : ~buckets[i].hasDuplicates => buckets[i].duplicates = << >>

\* C13 as stated: k >= 2 rows inserted with equal expression values fill one
\* bucket, which has duplicates and a chain of k nodes with the latest row
\* at the head; FindProbeRow with these values returns an iterator that
\* visits the k rows through NextDuplicate and is then at end.
C13_DuplicateChainAnyRow ==
  /\ OneBucketPerKey
  /\ \A key \in Keys :
       Cardinality(InsertedWith(key)) >= 2 => ChainOf(key) /\ ChainWalked(key)

\* C13, amended: k >= 2 rows inserted with equal expression values fill one
\* bucket, which has duplicates and a chain of k nodes with the latest row
\* at the head; if the values hold no NULL, or the equality of the context
\* finds nulls, FindProbeRow with these values returns an iterator that
\* visits the k rows through NextDuplicate and is then at end.
C13_DuplicateChain ==
  /\ OneBucketPerKey
  /\ \A key \in Keys :
       Cardinality(InsertedWith(key)) >= 2 =>
         /\ ChainOf(key)
         /\ key # "NULL" \/ ht_cfg.finds_nulls => ChainWalked(key)

\* three rows with equal values are in one chain, and the iterator of
\* FindProbeRow has been moved over the three of them to the end
C13_Witness ==
  /\ ht_last.op = "NextDuplicate"
  /\ ht_last.it = End
  /\ Cardinality(InsertedWith(ht_last.key)) = 3
  /\ num_filled_buckets = 1
  /\ num_duplicate_nodes = 3

-----------------------------------------------------------------------------
(* Result sink, one batch: properties *)

\* the step is the return of a GetNext call
GetNextReturns == pcC = "g_return" /\ pcC' # "g_return"

\* the first GetNext call returns the first HappyFirstRequest rows and eos =
\* false
FirstGetNext ==
  GetNextReturns /\ get_status = "none" =>
    /\ cur_results = RowsInOrder(HappyFirstRequest)
    /\ get_status' = "OK" /\ ~get_eos'

\* C14 as stated: the producer sends one batch of 5 rows and calls FlushFinal;
\* the first GetNext (n = 3) returns 3 rows and eos = false, and the GetNext
\* after it (n = 10) returns the remaining rows together with eos = true.
C14_HappyPathEosWithRows ==
  [][/\ FirstGetNext
     /\ GetNextReturns /\ get_status # "none" =>
          /\ cur_results = [i \in 1..(rows_total - HappyFirstRequest)
                              |-> HappyFirstRequest + i]
          /\ get_status' = "OK" /\ get_eos']_vars

\* C14, amended: the first GetNext (n = 3) returns 3 rows and eos = false; the
\* second (n = 10) returns the remaining rows, with eos = true if FlushFinal
\* has been called by the time it returns and with eos = false otherwise; in
\* the latter case a third GetNext returns no row and eos = true. Some
\* GetNext eventually returns eos = true, and by then all rows were returned.
C14_HappyPath ==
  /\ [][/\ FirstGetNext
        /\ GetNextReturns /\ get_status # "none" /\ ~get_eos' =>
             /\ cur_results = [i \in 1..(rows_total - HappyFirstRequest)
                                 |-> HappyFirstRequest + i]
             /\ get_status' = "OK" /\ sender_state = "ROWS_PENDING"
        /\ GetNextReturns /\ get_status # "none" /\ get_eos' =>
             /\ \/ cur_results = [i \in 1..(rows_total - HappyFirstRequest)
                                    |-> HappyFirstRequest + i]
                \/ cur_results = << >> /\ Len(delivered) = rows_total
             /\ get_status' = "OK" /\ sender_state = "EOS"]_vars
  /\ <>(get_eos /\ delivered = RowsInOrder(rows_total))

\* the second GetNext has returned rows 4 and 5 of a batch of 5 rows and eos
\* = true
C14_Witness ==
  /\ rows_total = 5
  /\ pcC = "done" /\ get_eos /\ get_status = "OK"
  /\ cur_results = << 4, 5 >>
  /\ delivered = RowsInOrder(5)

-----------------------------------------------------------------------------
(* Cluster membership, two deltas: properties *)

\* the backends of a snapshot
BackendsOf(snap) == {id \in Ids : snap.current_backends[id] # NoDesc}

\* the members of a group of a snapshot
MembersOf(snap, g) == {id \in Ids : snap.executor_groups[g][id] # NoDesc}

\* the published snapshot has g1 = {B}, g2 = {B}, current_backends = {B} and
\* version 2 (the initial snapshot has version 0)
OnlyBLeft ==
  /\ last_call.outcome = "published"
  /\ recovering_membership = NullState
  /\ BackendsOf(GetSnapshot) = {"B"}
  /\ MembersOf(GetSnapshot, "g1") = {"B"}
  /\ MembersOf(GetSnapshot, "g2") = {"B"}
  /\ GetSnapshot.version = EmptySnapshot.version + 2

\* the step is the UpdateMembership call with the delta that deletes A
SecondDelta == num_calls = 1 /\ num_calls' = 2

-----------------------------------------------------------------------------
(* C16: recovery of the cluster membership *)

\* this step is a pass of UpdateMembership: a call that found the membership
\* topic in its argument
UpdatePass ==
  /\ num_calls' = num_calls + 1 /\ ~cmm_crashed'
  /\ last_call'.op = "UpdateMembership"
  /\ last_call'.outcome # "no_topic"

\* C16: a pass of UpdateMembership that runs during the post-recovery grace
\* period leaves the published snapshot as it is, invokes neither callback
\* and keeps what it built in recovering_membership; the published snapshot
\* changes while a recovering snapshot exists only in a pass made after the
\* grace period, and the first such pass publishes and clears
\* recovering_membership.
C16_RecoveryKeptPrivate ==
  [][/\ UpdatePass /\ ss_recovering =>
          /\ current_membership' = current_membership
          /\ ~last_call'.local_server /\ ~last_call'.frontend
          /\ last_call'.outcome \in {"skipped", "kept_recovering"}
          /\ last_call'.outcome = "kept_recovering" =>
               recovering_membership'.obj = "private"
          /\ last_call'.outcome = "skipped" =>
               recovering_membership' = recovering_membership
     /\ recovering_membership.obj # "null"
          /\ ( current_membership' # current_membership
               \/ recovering_membership'.obj = "null" ) =>
          UpdatePass /\ ~ss_recovering
     /\ UpdatePass /\ ~ss_recovering /\ recovering_membership.obj # "null" =>
          /\ last_call'.outcome = "published" /\ last_call'.frontend
          /\ recovering_membership'.obj = "null"
          /\ last_call'.written = "private"
             \/ ~last_update'.update.is_delta]_vars

\* a delta processed after the grace period has published the state that
\* was accumulated in recovering_membership, with a backend in it
C16_Witness ==
  /\ last_call.op = "UpdateMembership" /\ last_call.outcome = "published"
  /\ last_call.written = "private"
  /\ recovering_membership.obj = "null"
  /\ current_membership.snap.current_backends # EmptySnapshot.current_backends
  /\ current_membership.snap.version >= 2

-----------------------------------------------------------------------------
(* C17, C18: BlacklistExecutor *)

\* this step is a call BlacklistExecutor(be_desc) for the executor `id'
BlacklistCall(id) ==
  /\ num_calls' = num_calls + 1 /\ ~cmm_crashed'
  /\ last_call'.op = "BlacklistExecutor" /\ last_call'.arg = id

MemberOfItsGroups(snap, id) ==
  \E g \in GroupsOf(id) : snap.executor_groups[g][id] # NoDesc

IsLocal(id) == current_membership.snap.local_be_desc.addr = id

LocalKnown == current_membership.snap.local_be_desc # NoDesc

BlacklistCalled(id) ==
  /\ num_calls' = num_calls + 1
  /\ last_call'.op = "BlacklistExecutor" /\ last_call'.arg = id

BlacklistSkipped ==
  /\ ~cmm_crashed'
  /\ current_membership' = current_membership
  /\ recovering_membership' = recovering_membership
  /\ ~last_call'.local_server /\ ~last_call'.frontend

\* C18: in every reachable state BlacklistExecutor called with the
\* descriptor of the local backend, or of a backend that is in none of its
\* groups in the base snapshot, returns and leaves the published snapshot,
\* the recovering snapshot and with them the blacklist unchanged.
C18_SkipsLocalAndAbsent ==
  [][\A id \in Ids :
       /\ BlacklistCalled(id)
       /\ \/ id = local_be.addr
          \/ IsLocal(id)
          \/ ~MemberOfItsGroups(BaseSnapshot, id)
       => BlacklistSkipped]_vars

\* the same for the states in which the published snapshot holds the
\* descriptor of the local backend
C18_SkipsWhenLocalKnown ==
  [][\A id \in Ids :
       /\ BlacklistCalled(id) /\ LocalKnown
       /\ IsLocal(id) \/ ~MemberOfItsGroups(BaseSnapshot, id)
       => BlacklistSkipped]_vars

\* BlacklistExecutor has been called while the published snapshot had no
\* descriptor of the local backend
C18_CalledWithoutLocal ==
  /\ last_call.op = "BlacklistExecutor" /\ last_call.outcome = "crashed"
  /\ cmm_crashed

\* BlacklistExecutor has returned for the local backend, an executor that
\* is in its group in the published snapshot
C18_SkippedLocal ==
  /\ last_call.op = "BlacklistExecutor" /\ last_call.outcome = "local"
  /\ MemberOfItsGroups(current_membership.snap, last_call.arg)

-----------------------------------------------------------------------------
(* C19: load factor of the hash table *)

\* the number of buckets that can still be filled with the fill factor 3/4
\* kept
RoomLeft ==
  Cardinality({k \in 1..num_buckets :
                 (num_filled_buckets + k) * 4 <= num_buckets * 3})

\* this step is an Insert that linked its row into the chain of a bucket
\* that was filled already
DuplicateInsert ==
  /\ ht_calls' = ht_calls + 1
  /\ ht_last'.op = "Insert" /\ ht_last'.ok /\ ht_last'.it.node = 1

\* C19: with a caller that inserts only while NumInsertsBeforeResize() > 0
\* and resizes otherwise, num_filled_buckets never exceeds 3/4 of
\* num_buckets; NumInsertsBeforeResize() is the room left up to that limit,
\* never negative, and an Insert of a duplicate does not decrease it.
C19_LoadFactor ==
  /\ [](/\ num_filled_buckets * 4 <= num_buckets * 3
        /\ NumInsertsBeforeResize >= 0
        /\ NumInsertsBeforeResize = RoomLeft)
  /\ [][DuplicateInsert =>
          /\ num_filled_buckets' = num_filled_buckets
          /\ NumInsertsBeforeResize' >= NumInsertsBeforeResize]_vars

\* Insert has filled the table up to the limit: no insert is left before a
\* resize
C19_Witness ==
  /\ ht_last.op = "Insert" /\ ht_last.ok
  /\ num_filled_buckets > 0 /\ num_buckets = InitialBuckets
  /\ NumInsertsBeforeResize = 0

-----------------------------------------------------------------------------
(* C20: one pass of Send's loop *)

\* this step is a pass of Send's loop that has filled the result set
FillPass == pcP = "s_fill" /\ pcP' = "s_loop"

\* the rows a pass has to add: the remaining rows of the batch, at most
\* num_rows_requested of them when that is positive
RowsOfPass ==
  LET remaining == batch_rows - current_batch_row
  IN IF num_rows_requested > 0 /\ num_rows_requested < remaining
       THEN num_rows_requested
     ELSE remaining

\* C20: a pass of Send's loop adds to the result set of the waiting GetNext
\* call the next RowsOfPass rows of the batch, sets results_ to null and
\* notifies the consumer; the result set was empty before the pass, so a
\* GetNext call receives the rows of one pass at most, and never more than
\* the number it asked for when that is positive.
C20_OnePassPerGetNext ==
  /\ [][FillPass =>
          /\ results = "cur" /\ cur_results = << >>
          /\ cur_results' =
               [i \in 1..RowsOfPass |-> batch_first + current_batch_row + i]
          /\ RowsOfPass > 0
          /\ current_batch_row' = current_batch_row + RowsOfPass
          /\ results' = "null"
          /\ pcC = "g_waiting" => pcC' = "g_woken"]_vars
  /\ [](num_rows_requested > 0 => Len(cur_results) <= num_rows_requested)

\* a pass has filled the result set with as many rows as were asked for and
\* left rows of the batch for the next GetNext call
C20_Witness ==
  /\ pcP = "s_loop" /\ results = "null"
  /\ num_rows_requested > 0 /\ Len(cur_results) = num_rows_requested
  /\ current_batch_row < batch_rows
  /\ current_batch_row = num_rows_requested

-----------------------------------------------------------------------------
(* C21: the states of the sender *)

FlushFinalReturns == pcP = "idle" /\ pcP' = "flushed"

CloseReturns == pcP # "closed" /\ pcP' = "closed"

LateFlushFinalReturns == pcP = "closed" /\ pcP' = "closed"

\* C21 as stated: sender_state changes only from ROWS_PENDING, to EOS in
\* FlushFinal or to CLOSED_NOT_EOS in Close; EOS and CLOSED_NOT_EOS are left
\* by no call, whatever the order of the calls.
C21_SenderStatesTerminal ==
  [][sender_state' # sender_state =>
       /\ sender_state = "ROWS_PENDING"
       /\ \/ sender_state' = "EOS" /\ FlushFinalReturns
          \/ sender_state' = "CLOSED_NOT_EOS" /\ CloseReturns]_vars

\* C21: sender_state changes only from ROWS_PENDING to EOS in FlushFinal,
\* from ROWS_PENDING to CLOSED_NOT_EOS in Close, and from CLOSED_NOT_EOS to
\* EOS in a FlushFinal called after Close; EOS is left by no call, and Send,
\* Cancel and GetNext never change sender_state.
C21_SenderStates ==
  [][sender_state' # sender_state =>
       \/ /\ sender_state = "ROWS_PENDING"
          /\ \/ sender_state' = "EOS" /\ FlushFinalReturns
             \/ sender_state' = "CLOSED_NOT_EOS" /\ CloseReturns
       \/ /\ sender_state = "CLOSED_NOT_EOS" /\ sender_state' = "EOS"
          /\ LateFlushFinalReturns]_vars

\* Close was called after a Send and before FlushFinal, and the consumer
\* has returned without eos
C21_Witness ==
  /\ pcP = "closed" /\ sender_state = "CLOSED_NOT_EOS"
  /\ batches_sent > 0 /\ pcC = "idle" /\ ~get_eos /\ get_status = "OK"

-----------------------------------------------------------------------------
(* C22: who writes a result set *)

\* this step adds rows to a result set
RowsAdded == delivered' # delivered

\* this step is the entry of a GetNext call, which passes a new result set
GetNextEnters == pcC = "idle" /\ pcC' = "g_check"

\* C22: rows are added to a result set only by the producer in Send's loop,
\* holding lock_, and only to the result set of a GetNext call that is
\* blocked in its wait; the result set of a GetNext call that has returned
\* is not written by a later pass, and is replaced only by the next call.
C22_SlotExclusive ==
  [][/\ RowsAdded =>
          /\ pcP = "s_fill" /\ lock = "P"
          /\ results = "cur"
          /\ pcC \in {"g_waiting", "g_woken"}
     /\ cur_results' # cur_results => RowsAdded \/ GetNextEnters
     /\ results = "stale" /\ results' # "stale" => GetNextEnters]_vars

\* a GetNext call has returned on cancellation with its result set still in
\* results_, and the producer, which was in Send, has returned CANCELLED
C22_Witness ==
  /\ results = "stale" /\ get_status = "CANCELLED"
  /\ pcP = "failed" /\ send_status = "CANCELLED"
  /\ current_batch_row < batch_rows

-----------------------------------------------------------------------------
(* C23, C24: locks of the cluster membership manager *)

NotifyingCallbackRuns ==
  callback_running \in {"update_local_server_fn", "update_frontend_fn"}

\* C23: while update_local_server_fn or update_frontend_fn is being invoked,
\* the invoking thread holds callback_fn_lock_ and no other lock: neither
\* update_membership_lock_ nor current_membership_lock_.
C23_CallbackHoldsOneLock ==
  NotifyingCallbackRuns =>
    /\ callback_fn_lock = "U"
    /\ update_membership_lock # "U"
    /\ current_membership_lock # "U"

\* what holds instead: the invoking thread holds callback_fn_lock_ and
\* update_membership_lock_, and not current_membership_lock_
C23_CallbackHoldsTwoLocks ==
  NotifyingCallbackRuns =>
    /\ callback_fn_lock = "U"
    /\ update_membership_lock = "U"
    /\ current_membership_lock # "U"

\* update_frontend_fn is being invoked by UpdateMembership
C23_FrontendCallbackRuns == callback_running = "update_frontend_fn"

Acquires(lk, t) == lk # t /\ lk' = t

\* C24: a thread acquires update_membership_lock_ holding no other lock,
\* callback_fn_lock_ not holding current_membership_lock_, and
\* current_membership_lock_ not holding callback_fn_lock_; no thread holds
\* callback_fn_lock_ and current_membership_lock_ together; and every call
\* of every thread, GetSnapshot in particular, returns.
C24_LockOrder ==
  /\ [][\A t \in CmmThreads :
          /\ Acquires(update_membership_lock, t) =>
               callback_fn_lock # t /\ current_membership_lock # t
          /\ Acquires(callback_fn_lock, t) => current_membership_lock # t
          /\ Acquires(current_membership_lock, t) => callback_fn_lock # t]_vars
  /\ [](\A t \in CmmThreads :
          ~(callback_fn_lock = t /\ current_membership_lock = t))
  /\ \A t \in {"U", "B", "G"} :
       (thread_at[t] # "idle") ~> (thread_at[t] = "idle")
  /\ (thread_at["S"] \in {"s_lock", "s_set"}) ~> (thread_at["S"] = "idle")

\* GetSnapshot and BlacklistExecutor wait for their locks while
\* UpdateMembership publishes in SetState
C24_Witness ==
  /\ thread_at["U"] = "w_swap" /\ current_membership_lock = "U"
  /\ update_membership_lock = "U"
  /\ thread_at["G"] = "g_lock" /\ thread_at["B"] = "w_lock"

-----------------------------------------------------------------------------
(* C25: the calls of UpdateMembership that do nothing *)

\* this step is a call of UpdateMembership
UpdateCalled ==
  /\ num_calls' = num_calls + 1 /\ ~cmm_crashed'
  /\ last_call'.op = "UpdateMembership"

EmptyDelta(update) ==
  /\ update.is_delta
  /\ \A id \in Ids : update.topic_entries[id].kind = "absent"

\* the local backend has not started, or the base snapshot holds it with
\* the is_quiescing it has now
LocalBackendUpToDate ==
  \/ local_be = NoDesc
  \/ /\ BaseSnapshot.local_be_desc # NoDesc
     /\ BaseSnapshot.current_backends[local_backend_id] # NoDesc
     /\ BaseSnapshot.current_backends[local_backend_id].is_quiescing
          = local_be.is_quiescing

\* no entry of the base snapshot's blacklist has its timeout elapsed
NothingDue(due) ==
  \A a \in due : BaseSnapshot.executor_blacklist[a].state = "NOT_BLACKLISTED"

NothingToDo ==
  \/ last_call'.outcome = "no_topic"
  \/ /\ EmptyDelta(last_update'.update)
     /\ LocalBackendUpToDate
     /\ ~(recovering_membership.obj # "null" /\ ~ss_recovering)
     /\ NothingDue(last_update'.due)

\* C25: a call of UpdateMembership without the membership topic, or with an
\* empty delta when the local backend needs no update, no recovering
\* snapshot waits to be published and the blacklist needs no maintenance,
\* leaves current_membership and recovering_membership as they are, appends
\* nothing to the subscriber's topic updates and invokes no callback.
C25_NoOpPaths ==
  [][UpdateCalled /\ NothingToDo =>
       /\ current_membership' = current_membership
       /\ recovering_membership' = recovering_membership
       /\ last_call'.appended = 0
       /\ ~last_call'.local_server /\ ~last_call'.frontend]_vars

\* an empty delta has been skipped with the local backend in the published
\* snapshot and an executor on the blacklist
C25_Witness ==
  /\ last_call.op = "UpdateMembership" /\ last_call.outcome = "skipped"
  /\ EmptyDelta(last_update.update)
  /\ current_membership.snap.current_backends[local_backend_id] # NoDesc
  /\ \E a \in Ids :
       current_membership.snap.executor_blacklist[a].state = "BLACKLISTED"

-----------------------------------------------------------------------------
(* C26: full transmit *)

\* this step is a pass of UpdateMembership that built a snapshot
BuildingPass ==
  UpdateCalled /\ last_call'.outcome \in {"published", "kept_recovering"}

\* the snapshot built by the pass
BuiltSnapshot ==
  IF last_call.outcome = "published" THEN current_membership.snap
  ELSE recovering_membership.snap

\* the descriptor a full transmit leaves under `id': the local descriptor
\* for the local backend, the one of a valid entry for a remote one
FullTransmitEntry(update, id) ==
  IF id = local_backend_id THEN local_be
  ELSE IF update.topic_entries[id].kind = "desc"
    THEN update.topic_entries[id].desc
  ELSE NoDesc

\* C26: a pass for a full transmit builds its snapshot from the empty state:
\* current_backends holds the valid remote backends of the update and the
\* local backend if it has started, the executor groups hold backends of
\* current_backends only (the executors among them that are not quiescing),
\* the blacklist is empty, and the local server is notified when the pass
\* publishes.
C26_FullTransmit ==
  [][BuildingPass /\ ~last_update'.update.is_delta =>
       /\ \A id \in Ids :
            BuiltSnapshot'.current_backends[id]
              = FullTransmitEntry(last_update'.update, id)
       /\ \A g \in Groups : \A id \in Ids :
            BuiltSnapshot'.executor_groups[g][id] =
              (IF /\ BuiltSnapshot'.current_backends[id].is_executor
                  /\ ~BuiltSnapshot'.current_backends[id].is_quiescing
                  /\ g \in BuiltSnapshot'.current_backends[id].executor_groups
                 THEN BuiltSnapshot'.current_backends[id] ELSE NoDesc)
       /\ BuiltSnapshot'.executor_blacklist = EmptyBlacklist
       /\ last_call'.outcome = "published" => last_call'.local_server]_vars

\* a full transmit listing B has replaced a snapshot that was not empty,
\* and the published snapshot holds B and the local backend
C26_Witness ==
  /\ last_call.op = "UpdateMembership" /\ last_call.outcome = "published"
  /\ ~last_update.update.is_delta /\ last_update.times > 0
  /\ num_calls >= 2
  /\ current_membership.snap.current_backends["B"] # NoDesc
  /\ current_membership.snap.current_backends["A"] = NoDesc
  /\ current_membership.snap.current_backends[local_backend_id] # NoDesc

-----------------------------------------------------------------------------
(* C27: notification of the local server *)

\* the update deletes a backend that the base snapshot holds
DeletesPresent(update) ==
  \E id \in Ids :
    /\ update.topic_entries[id].kind = "deleted"
    /\ BaseSnapshot.current_backends[id] # NoDesc

\* C27: a pass of UpdateMembership that publishes invokes
\* update_local_server_fn, with the addresses of the backends in the
\* current_backends it publishes, if and only if its delta deleted a backend
\* that was present, or it was a full transmit, or a recovering snapshot was
\* being tracked; a pass that does not publish does not invoke it.
C27_LocalServerNotified ==
  [][UpdateCalled =>
       /\ last_call'.local_server <=>
            /\ last_call'.outcome = "published"
            /\ \/ DeletesPresent(last_update'.update)
               \/ ~last_update'.update.is_delta
               \/ recovering_membership.obj # "null"
       /\ last_call'.local_server =>
            last_call'.notified =
              {id \in Ids :
                 current_membership'.snap.current_backends[id] # NoDesc}
       /\ ~last_call'.local_server => last_call'.notified = {}]_vars

\* the first pass after the grace period publishes a snapshot from which A
\* was deleted during the grace period, and notifies the local server with
\* the backends that are left
C27_Witness ==
  /\ last_call.op = "UpdateMembership" /\ last_call.outcome = "published"
  /\ last_call.written = "private" /\ last_call.local_server
  /\ EmptyDelta(last_update.update)
  /\ current_membership.snap.current_backends["A"] = NoDesc
  /\ last_call.notified = {local_backend_id}

-----------------------------------------------------------------------------
(* C28: the entry of the local backend *)

\* the pass writes current_backends[local_backend_id_]: the local backend has
\* started and the state the items leave does not hold it with the
\* is_quiescing it has now
LocalEntryWritten(update) ==
  /\ local_be # NoDesc
  /\ \/ ~update.is_delta
     \/ update.topic_entries[local_backend_id].kind = "deleted"
     \/ BaseSnapshot.current_backends[local_backend_id] = NoDesc
     \/ BaseSnapshot.current_backends[local_backend_id].is_quiescing
          # local_be.is_quiescing

\* C28: a topic entry keyed by the local backend id is never applied to
\* current_backends: the snapshot built by a pass of UpdateMembership has no
\* entry for the local id while local_be_desc_fn returns none, and otherwise
\* holds under the local id the descriptor local_be_desc_fn returns, whatever
\* the update says about the local id; the pass appends one topic update
\* when it writes that entry and none when it does not.
C28_LocalEntry ==
  [][BuildingPass =>
       /\ BuiltSnapshot'.current_backends[local_backend_id] = local_be
       /\ last_call'.appended =
            IF LocalEntryWritten(last_update'.update) THEN 1 ELSE 0]_vars

\* a delta deleted the local backend's entry: the pass wrote it again and
\* appended a topic update
C28_Witness ==
  /\ last_call.op = "UpdateMembership" /\ last_call.outcome = "published"
  /\ last_update.times > 0 /\ last_update.update.is_delta
  /\ last_update.update.topic_entries[local_backend_id].kind = "deleted"
  /\ current_membership.snap.current_backends[local_backend_id] = local_be
  /\ local_be # NoDesc
  /\ last_call.appended = 1

\* an entry for the local id sent by another host arrived while the local
\* backend was quiescing: the snapshot keeps the local descriptor
C28_StaleEntryIgnored ==
  /\ last_call.op = "UpdateMembership" /\ last_call.outcome = "published"
  /\ last_update.times > 0
  /\ last_update.update.topic_entries[local_backend_id].kind = "desc"
  /\ local_be # NoDesc /\ local_be.is_quiescing
  /\ current_membership.snap.current_backends[local_backend_id] = local_be

-----------------------------------------------------------------------------
(* C29: items that cannot be used *)

HasBadItem(update) ==
  \E id \in Ids : update.topic_entries[id].kind = "bad"

\* the backends and groups the pass starts from
StartBackends(update) ==
  IF update.is_delta THEN BaseSnapshot.current_backends
  ELSE EmptySnapshot.current_backends

StartGroups(update) ==
  IF update.is_delta THEN BaseSnapshot.executor_groups
  ELSE EmptySnapshot.executor_groups

\* what the items of the update leave under a remote key
RemoteEntryAfter(update, id) ==
  LET item == update.topic_entries[id] IN
  IF item.kind = "desc" THEN item.desc
  ELSE IF item.kind = "deleted" THEN NoDesc
  ELSE StartBackends(update)[id]

-----------------------------------------------------------------------------
(* C30: backends that start to quiesce, and new backends *)

\* the update carries a descriptor for the remote key `id'
RemoteDesc(update, id) ==
  id # local_backend_id /\ update.topic_entries[id].kind = "desc"

\* the groups among `executor_groups' that hold `id'
GroupsHolding(executor_groups, id) ==
  {g \in Groups : executor_groups[g][id] # NoDesc}

\* C30: when a pass of UpdateMembership applies a descriptor that is
\* quiescing to a remote backend that its state holds as an executor that is
\* not quiescing, the snapshot it builds has the backend in no executor group
\* and the new descriptor in current_backends; when it applies a descriptor
\* to a remote key its state does not hold, the snapshot has the descriptor
\* in current_backends, and the pass adds the backend to the groups the
\* descriptor names if it is an executor that is not quiescing and to no
\* group otherwise (the maintenance of the blacklist, which follows the
\* items, aside: no timeout of the backend has elapsed).
C30_QuiescingEdge ==
  [][BuildingPass =>
       \A id \in Ids : RemoteDesc(last_update'.update, id) =>
         LET update == last_update'.update
             be_desc == update.topic_entries[id].desc
             existing == StartBackends(update)[id]
         IN /\ BuiltSnapshot'.current_backends[id] = be_desc
            /\ /\ existing # NoDesc
               /\ existing.is_executor /\ ~existing.is_quiescing
               /\ be_desc.is_quiescing
               => GroupsHolding(BuiltSnapshot'.executor_groups, id) = {}
            /\ existing = NoDesc /\ id \notin last_update'.due =>
                 GroupsHolding(BuiltSnapshot'.executor_groups, id) =
                   GroupsHolding(StartGroups(update), id) \cup
                     (IF be_desc.is_executor /\ ~be_desc.is_quiescing
                        THEN be_desc.executor_groups ELSE {})]_vars

\* a delta made the executor B, which was in its groups, quiescing
C30_Witness ==
  /\ last_call.op = "UpdateMembership" /\ last_call.outcome = "published"
  /\ last_update.times > 0
  /\ RemoteDesc(last_update.update, "B")
  /\ last_update.existing["B"] = BeDesc("B", TRUE, FALSE)
  /\ current_membership.snap.current_backends["B"] = BeDesc("B", TRUE, TRUE)
  /\ GroupsHolding(current_membership.snap.executor_groups, "B") = {}

\* a delta inserted the executor A
C30_NewExecutorJoins ==
  /\ last_call.op = "UpdateMembership" /\ last_call.outcome = "published"
  /\ last_update.times > 0 /\ last_update.update.is_delta
  /\ RemoteDesc(last_update.update, "A")
  /\ last_update.existing["A"] = NoDesc
  /\ current_membership.snap.current_backends["A"] = BeDesc("A", TRUE, FALSE)
  /\ GroupsHolding(current_membership.snap.executor_groups, "A") = GroupsOf("A")

-----------------------------------------------------------------------------
(* C31: executors that should be in their groups *)

\* C31: in every snapshot the manager holds, every backend of
\* current_backends that is an executor, is not quiescing and is not
\* BLACKLISTED is a member of every executor group its descriptor names.
\* (Not true of the code: the update branch of UpdateMembership never adds a
\* backend to its groups.)
C31_GroupsComplete ==
  \A s \in Snapshots : \A id \in Ids :
    LET backend == s.current_backends[id]
    IN /\ backend # NoDesc
       /\ backend.is_executor /\ ~backend.is_quiescing
       /\ s.executor_blacklist[backend.addr].state # "BLACKLISTED"
       => \A g \in backend.executor_groups :
            s.executor_groups[g][backend.addr] # NoDesc

\* a delta turned the quiescing executor B back into one that is not
\* quiescing, and B is in none of its groups
C31_BackFromQuiescing ==
  /\ last_call.op = "UpdateMembership" /\ last_call.outcome = "published"
  /\ last_update.times > 0
  /\ last_update.existing["B"] = BeDesc("B", TRUE, TRUE)
  /\ current_membership.snap.current_backends["B"] = BeDesc("B", TRUE, FALSE)
  /\ current_membership.snap.executor_blacklist["B"].state = "NOT_BLACKLISTED"
  /\ \A g \in Groups : current_membership.snap.executor_groups[g]["B"] = NoDesc

\* a delta carried the descriptor of the blacklisted executor B: B is off the
\* blacklist and in none of its groups
C31_UpdatedWhileBlacklisted ==
  /\ last_call.op = "UpdateMembership" /\ last_call.outcome = "published"
  /\ last_update.times > 0 /\ last_update.due = {}
  /\ last_update.existing["B"] = BeDesc("B", TRUE, FALSE)
  /\ last_update.update.topic_entries["B"].desc = BeDesc("B", TRUE, FALSE)
  /\ current_membership.snap.current_backends["B"] = BeDesc("B", TRUE, FALSE)
  /\ current_membership.snap.executor_blacklist["B"].state = "NOT_BLACKLISTED"
  /\ \A g \in Groups : current_membership.snap.executor_groups[g]["B"] = NoDesc

-----------------------------------------------------------------------------
(* C32: the result of Probe *)

ProbeOps ==
  {ProbeOp(inclusive, compare_row) :
     inclusive \in BOOLEAN, compare_row \in BOOLEAN}

\* the j-th bucket of the probe sequence of `hash' in the table: steps of one
\* bucket, or of 1, 2, 3, ... buckets with quadratic probing
SlotOfProbe(hash, j) ==
  IF ht_cfg.quadratic_probing
    THEN (hash + (j * (j + 1)) \div 2) % num_buckets
  ELSE (hash + j) % num_buckets

\* bucket i matches the call in ht_last: it holds the hash probed for and,
\* the call comparing rows, a row equal to the expression values
MatchesProbe(i) ==
  /\ buckets[i].filled
  /\ hash_array[i] = HashRow(ht_last.key)
  /\ ht_last.op \in {"Probe<true,true>", "Probe<false,true>"}
  /\ Equals(ht_last.op = "Probe<true,true>", GetRow(buckets[i]).key,
            ht_last.key)

\* the probe ends at the j-th bucket of its sequence
EndsProbe(j) ==
  LET i == SlotOfProbe(HashRow(ht_last.key), j)
  IN ~buckets[i].filled \/ MatchesProbe(i)

\* C32: Probe returns the first bucket of the probe sequence from
\* hash mod N that is empty (found = false) or holds the hash probed for and,
\* rows being compared, an equal row (found = true); it returns
\* BUCKET_NOT_FOUND only when the N buckets of the sequence are all the
\* buckets of the table, all are filled and none matches; the bucket
\* returned is reached within N steps and lies in 0..N-1.
C32_ProbeResult ==
  ht_last.op \in ProbeOps =>
    LET ends == {j \in 0..(num_buckets - 1) : EndsProbe(j)}
        idx == ht_last.it.bucket_idx
    IN /\ ends # {} =>
            LET first == CHOOSE j \in ends : \A k \in ends : j <= k
            IN /\ idx = SlotOfProbe(HashRow(ht_last.key), first)
               /\ ht_last.ok = buckets[idx].filled
               /\ ht_last.ok = MatchesProbe(idx)
       /\ ends = {} => idx = BUCKET_NOT_FOUND /\ ~ht_last.ok
       /\ idx = BUCKET_NOT_FOUND =>
            /\ {SlotOfProbe(HashRow(ht_last.key), j) :
                  j \in 0..(num_buckets - 1)} = 0..(num_buckets - 1)
            /\ \A i \in 0..(num_buckets - 1) :
                 buckets[i].filled /\ ~MatchesProbe(i)
       /\ idx # BUCKET_NOT_FOUND => idx \in 0..(num_buckets - 1)

\* a probe that compares rows passed a bucket with the same hash and
\* another row and found its row further on
C32_Witness ==
  /\ ht_last.op = "Probe<false,true>" /\ ht_last.ok
  /\ ht_last.it.bucket_idx # HashRow(ht_last.key) % num_buckets
  /\ \E i \in 0..(num_buckets - 1) :
       /\ i # ht_last.it.bucket_idx
       /\ buckets[i].filled /\ hash_array[i] = HashRow(ht_last.key)
       /\ ~MatchesProbe(i)

\* a probe of a full table without a match
C32_FullTable ==
  /\ ht_last.op \in ProbeOps
  /\ ht_last.it.bucket_idx = BUCKET_NOT_FOUND
  /\ \E i \in 0..(num_buckets - 1) : hash_array[i] = HashRow(ht_last.key)

\* a probe that does not compare rows passed a bucket with its hash and
\* returned an empty bucket
C32_HashOnly ==
  /\ ht_last.op = "Probe<true,false>" /\ ~ht_last.ok
  /\ ht_last.it.bucket_idx # BUCKET_NOT_FOUND
  /\ hash_array[HashRow(ht_last.key) % num_buckets] = HashRow(ht_last.key)
  /\ buckets[HashRow(ht_last.key) % num_buckets].filled

-----------------------------------------------------------------------------
(* C33, C34: iteration over the table *)

\* the entries of bucket i: its row, or the nodes of its chain
EntriesOf(i) ==
  IF ~buckets[i].filled THEN {}
  ELSE IF buckets[i].hasDuplicates
    THEN {[bucket_idx |-> i, node |-> j] :
            j \in 1..Len(buckets[i].duplicates)}
  ELSE {[bucket_idx |-> i, node |-> 0]}

AllEntries == UNION {EntriesOf(i) : i \in 0..(num_buckets - 1)}

\* e1 comes before e2: in a bucket of lower index, or nearer the head of
\* the chain of the same bucket
Before(e1, e2) ==
  \/ e1.bucket_idx < e2.bucket_idx
  \/ e1.bucket_idx = e2.bucket_idx /\ e1.node < e2.node

\* the iterator has visited, in order and once each, the entries of
\* `entries' up to the one it stands on, all of them if it is at the end
VisitedInOrder(entries) ==
  /\ \A a, b \in 1..Len(iter_visited) :
       a < b => Before(iter_visited[a], iter_visited[b])
  /\ {iter_visited[a] : a \in 1..Len(iter_visited)} =
       {e \in entries : iterator = End \/ ~Before(iterator, e)}
  /\ iterator # End => iterator = iter_visited[Len(iter_visited)]

\* C33: the iterator of Begin, moved by Next until it is at the end, visits
\* the filled buckets in increasing index order and the nodes of a chain
\* from head to tail before the next filled bucket, every row of the table
\* exactly once; on a table without a filled bucket Begin is at the end.
C33_FullIteration ==
  iterator_of = "Begin" =>
    /\ VisitedInOrder(AllEntries)
    /\ iterator = End =>
         /\ {IteratorGetRow(iter_visited[a]) : a \in 1..Len(iter_visited)}
              = ht_inserted
         /\ Len(iter_visited) = Cardinality(ht_inserted)
    /\ AllEntries = {} => iterator = End

\* the iteration is over on a table with a chain of three rows followed by a
\* bucket with one row
C33_Witness ==
  /\ iterator_of = "Begin" /\ iterator = End
  /\ \E i, k \in 0..(num_buckets - 1) :
       /\ i < k
       /\ buckets[i].hasDuplicates /\ Len(buckets[i].duplicates) = 3
       /\ buckets[k].filled /\ ~buckets[k].hasDuplicates
  /\ Len(iter_visited) >= 4

\* C34 as claimed: FirstUnmatched and NextUnmatched visit exactly the
\* entries that are not matched, each once, also on a table without a filled
\* bucket, where FirstUnmatched returns the end iterator without reading a
\* bucket; has_matches_ is true once SetMatched has been called. (Not true
\* of the code: without a filled bucket FirstUnmatched reads buckets_[-1].)
C34_UnmatchedIteration ==
  /\ iterator_of # "crashed"
  /\ iterator_of = "FirstUnmatched" => VisitedInOrder(AllEntries \ ht_matched)
  /\ ht_matched # {} => has_matches

\* C34 on tables with a filled bucket: FirstUnmatched and NextUnmatched
\* visit exactly the entries that are not matched, each once and in order,
\* and has_matches_ is true once SetMatched has been called.
C34_UnmatchedOnFilledTable ==
  /\ [](iterator_of = "crashed" => AllEntries = {})
  /\ [](iterator_of = "FirstUnmatched" =>
          VisitedInOrder(AllEntries \ ht_matched))
  /\ [](ht_matched # {} => has_matches)
  /\ [][has_matches => has_matches']_vars

\* the iteration over the unmatched entries is over on a table whose first
\* filled bucket is a chain with its head and its tail matched, its middle
\* node not
C34_Witness ==
  /\ iterator_of = "FirstUnmatched" /\ iterator = End
  /\ \E i \in 0..(num_buckets - 1) :
       /\ \A k \in 0..(i - 1) : ~buckets[k].filled
       /\ buckets[i].hasDuplicates /\ Len(buckets[i].duplicates) = 3
       /\ [bucket_idx |-> i, node |-> 1] \in ht_matched
       /\ [bucket_idx |-> i, node |-> 2] \notin ht_matched
       /\ [bucket_idx |-> i, node |-> 3] \in ht_matched
  /\ Len(iter_visited) >= 2

\* every entry is matched and FirstUnmatched returned the end iterator
C34_AllMatched ==
  /\ iterator_of = "FirstUnmatched" /\ iterator = End
  /\ AllEntries # {} /\ ht_matched = AllEntries
  /\ iter_visited = << >>

\* ---------------------------------------------------------------------
\* C35: Insert when the allocation of a duplicate node fails
\* ---------------------------------------------------------------------

\* num_buckets_with_duplicates_: the buckets that hold a chain
NumBucketsWithDuplicates ==
  Cardinality({i \in 0..(num_buckets - 1) : buckets[i].hasDuplicates})

\* the step is an Insert that returned false with the status of the failed
\* GrowNodeArray
InsertFailedToGrow ==
  /\ ht_calls' = ht_calls + 1
  /\ ht_last'.op = "Insert"
  /\ ~ht_last'.ok

\* C35: an Insert that fails to allocate a duplicate node is the Insert of
\* a row equal to a resident row, it returns false and leaves the table as
\* it was: every bucket keeps its flags and its row or its chain, the
\* stored hashes, num_filled_buckets, num_duplicate_nodes and the number of
\* buckets with duplicates do not change, no entry becomes matched, and
\* every row inserted before is still found.
C35_FailedGrowKeepsTable ==
  [][InsertFailedToGrow =>
       /\ \E row \in ht_inserted : row.key = ht_last'.key
       /\ ht_last'.it = End
       /\ buckets' = buckets
       /\ hash_array' = hash_array
       /\ num_filled_buckets' = num_filled_buckets
       /\ num_duplicate_nodes' = num_duplicate_nodes
       /\ NumBucketsWithDuplicates' = NumBucketsWithDuplicates
       /\ ht_matched' = ht_matched
       /\ ht_inserted' = ht_inserted
       /\ \A row \in ht_inserted :
            row.key # "NULL" \/ ht_cfg.finds_nulls => FoundAgain(row)']_vars

\* an Insert has failed on a table that holds a row in a bucket of its own
\* and a chain: the failed row is equal to a resident row and the page of
\* nodes had no room for it
C35_Witness ==
  /\ ht_last.op = "Insert" /\ ~ht_last.ok
  /\ \E row \in ht_inserted : row.key = ht_last.key
  /\ Cardinality(ht_inserted) >= 2
  /\ node_remaining_current_page < 2

\* ---------------------------------------------------------------------
\* C36: rows with a NULL expression value at build and at probe time
\* ---------------------------------------------------------------------

\* the step is Insert's call of EvalAndHashBuild for the row of ht_last'
EvalBuildStep == ht_calls' = ht_calls + 1

\* the step is ProbeRow's call of EvalAndHashProbe for the row of ht_last'
EvalProbeStep ==
  /\ ht_calls' = ht_calls
  /\ ht_last'.op \in {"EvalAndHashProbe", "FindProbeRow"}

\* C36: EvalAndHashBuild rejects a row exactly if the row has a NULL and
\* stores_nulls() is false; EvalAndHashProbe rejects a row exactly if the
\* row has a NULL and stores_nulls() and finds_some_nulls() are not both
\* true; a rejected row leaves the current expression-values hash and the
\* table as they were, and the hash of every accepted row is the current
\* expression-values hash after the call.
C36_NullHandling ==
  /\ [][EvalBuildStep =>
          /\ (ht_last'.op = "EvalAndHashBuild") =
               (ht_last'.key = "NULL" /\ ~ht_cfg.stores_nulls)
          /\ ht_last'.op \in {"EvalAndHashBuild", "Insert"}
          /\ IF ht_last'.op = "EvalAndHashBuild"
               THEN /\ ~ht_last'.ok
                    /\ cur_expr_values_hash' = cur_expr_values_hash
                    /\ buckets' = buckets /\ hash_array' = hash_array
                    /\ ht_inserted' = ht_inserted
             ELSE cur_expr_values_hash' = HashRow(ht_last'.key)]_vars
  /\ [][EvalProbeStep =>
          /\ (ht_last'.op = "EvalAndHashProbe") =
               (/\ ht_last'.key = "NULL"
                /\ ~(ht_cfg.stores_nulls /\ ht_cfg.finds_nulls))
          /\ IF ht_last'.op = "EvalAndHashProbe"
               THEN /\ ~ht_last'.ok
                    /\ cur_expr_values_hash' = cur_expr_values_hash
             ELSE cur_expr_values_hash' = HashRow(ht_last'.key)]_vars

\* a row with a NULL was rejected at build time by a table that does not
\* store nulls, after a row without a NULL was accepted: the hash of the
\* accepted row is still the current one
C36_Witness ==
  /\ ht_last.op = "EvalAndHashBuild" /\ ht_last.key = "NULL"
  /\ ~ht_cfg.stores_nulls
  /\ ht_inserted # {}
  /\ cur_expr_values_hash # 0

\* a row with a NULL was rejected at probe time by a table that stores
\* nulls and holds a row with a NULL, but does not find nulls
C36_ProbeRejected ==
  /\ ht_last.op = "EvalAndHashProbe" /\ ht_last.key = "NULL"
  /\ ht_cfg.stores_nulls /\ ~ht_cfg.finds_nulls
  /\ \E row \in ht_inserted : row.key = "NULL"

\* a row with a NULL was accepted at probe time and found: the table
\* stores nulls and finds nulls
C36_ProbeAccepted ==
  /\ ht_last.op = "FindProbeRow" /\ ht_last.key = "NULL" /\ ht_last.ok
  /\ cur_expr_values_hash = HashRow("NULL")

=============================================================================
